---- MODULE Spec2Model ----
(***************************************************************************)
(* A model of the jobfit-agent execution engine: the graph runner          *)
(* (src/agent/graph.ts), the pipeline context (src/agent/state.ts), the    *)
(* five node handlers of the default graph, the fan-out of the three       *)
(* generation sub-tasks and the quality validator (src/agent/validator.ts).*)
(* Spec is a run of runGraph; ValidatorSpec is validateOutputs called on   *)
(* arguments of its own, as its tests do; ClientSpec is two LLMClient      *)
(* instances (src/llm/client.ts), each running one structured() call.      *)
(*                                                                         *)
(* Texts are abstracted to the features the validator reads: whether the   *)
(* string is empty, the length of split(/\s+/), the number of "- " lines,  *)
(* the section headers present and the set of lower-cased keywords that    *)
(* occur in it as substrings.                                              *)
(***************************************************************************)
EXTENDS Integers, Sequences, FiniteSets, TLC

VARIABLES
  graph,          \* the AgentGraph handed to runGraph: nodes and terminalStates
  onStateChange,  \* the optional progress callback handed to runGraph
  ctx,            \* the PipelineContext, mutated in place
  cur,            \* runGraph's local currentState
  pc,             \* position of runGraph: loop, invoke, await, join, done, rejected
  rejection,      \* the error runGraph's promise rejected with, or NoError
  executed,       \* states whose handler has been invoked, in order
  notified,       \* states passed to onStateChange, in order
  thrown,         \* the errors handlers have thrown: the state and the message
  validationLog,  \* the result of every validateOutputs call, in order
  tasks,          \* the generation sub-tasks of the current GENERATE_OUTPUTS attempt
  calls,          \* number of llm.structured calls issued per call site
  now,            \* the clock read by Date.now()
  testOutputs,    \* a direct call of validateOutputs: its GeneratedOutputs argument
  testJD,         \* a direct call of validateOutputs: its ParsedJD argument
  testResult,     \* the ValidationResult of the last direct call, or Null
  testBefore,     \* the arguments and the result of the direct call before it, or Null
  llm,            \* the LLMClient instances: maxRetries, mockMode, usageLog
  invocation      \* the structured() call running on each instance

\* the state of a run of runGraph
pipelineVars == <<graph, onStateChange, ctx, cur, pc, rejection, executed, notified, thrown,
                  validationLog, tasks, calls, now>>

\* the state of direct calls of validateOutputs
validatorVars == <<testOutputs, testJD, testResult, testBefore>>

\* the state of the LLMClient instances and of their structured() calls
clientVars == <<llm, invocation>>

\* what a run of runGraph leaves alone
unitVars == <<validatorVars, clientVars>>

vars == <<pipelineVars, validatorVars, clientVars>>

----------------------------------------------------------------------------
(* Bounds of the model *)

\* Date.now() ranges over 0..MaxClock
MaxClock == 1

\* cap on the length of stateHistory for graphs whose handlers form a cycle
MaxHistory == 9

----------------------------------------------------------------------------
(* AgentState and the graph *)

AgentState ==
  {"INTAKE", "PARSE_JD", "PARSE_RESUME", "ANALYZE_FIT", "GENERATE_OUTPUTS",
   "VALIDATE", "DONE", "ERROR"}

MAX_VALIDATION_ATTEMPTS == 2

\* STATE_TRANSITIONS: the successors each state is declared to have
STATE_TRANSITIONS ==
  [S \in AgentState |->
     CASE S = "INTAKE"           -> {"PARSE_JD"}
       [] S = "PARSE_JD"         -> {"PARSE_RESUME", "ERROR"}
       [] S = "PARSE_RESUME"     -> {"ANALYZE_FIT", "ERROR"}
       [] S = "ANALYZE_FIT"      -> {"GENERATE_OUTPUTS", "ERROR"}
       [] S = "GENERATE_OUTPUTS" -> {"VALIDATE", "ERROR"}
       [] S = "VALIDATE"         -> {"GENERATE_OUTPUTS", "DONE", "ERROR"}
       [] S = "DONE"             -> {}
       [] S = "ERROR"            -> {}]

Null == [null |-> TRUE]

NoError == <<>>

NoHandler == [kind |-> "none"]

\* a handler of createAgentGraph
RealHandler == [kind |-> "real"]

\* a handler that returns a fixed next state, as in the tests of runGraph
ReturnHandler(next) == [kind |-> "ret", next |-> next]

\* a handler that throws new Error(msg)
ThrowHandler(msg) == [kind |-> "throw", msg |-> msg]

DefaultStates ==
  {"PARSE_JD", "PARSE_RESUME", "ANALYZE_FIT", "GENERATE_OUTPUTS", "VALIDATE"}

createAgentGraph ==
  [nodes |-> [s \in AgentState |-> IF s \in DefaultStates THEN RealHandler ELSE NoHandler],
   terminalStates |-> {"DONE", "ERROR"}]

\* the states a hand-built graph registers handlers for, and what they do
StubStates == {"PARSE_JD", "PARSE_RESUME", "ANALYZE_FIT"}

StubTargets == {"PARSE_JD", "PARSE_RESUME", "ANALYZE_FIT", "DONE", "ERROR"}

HandlerMessages == {"boom"}

StubHandlers ==
  {NoHandler} \cup {ReturnHandler(t) : t \in StubTargets}
              \cup {ThrowHandler(m) : m \in HandlerMessages}

StubGraphs ==
  {[nodes |-> [s \in AgentState |-> IF s \in StubStates THEN f[s] ELSE NoHandler],
    terminalStates |-> {"DONE", "ERROR"}] : f \in [StubStates -> StubHandlers]}

IsDefault == graph = createAgentGraph

----------------------------------------------------------------------------
(* Sequences *)

Last(s) == s[Len(s)]

Count(x, s) == Cardinality({i \in 1..Len(s) : s[i] = x})

Range(s) == {s[i] : i \in 1..Len(s)}

IsPrefix(s, t) == Len(s) <= Len(t) /\ \A i \in 1..Len(s) : s[i] = t[i]

StatesOf(h) == [i \in 1..Len(h) |-> h[i].state]

----------------------------------------------------------------------------
(* Texts, parsed data and model responses *)

\* the three artifacts of GeneratedOutputs
Artifacts == {"coverLetter", "tailoredBullets", "interviewPrep"}

SectionHeaders == {"Technical Questions", "Behavioral Questions", "Questions to Ask"}

\* ParsedJD values a model call can return: company as its lower-cased
\* space-separated tokens, the names of requiredSkills, and techStack
ParsedJDs ==
  {[company |-> <<"acme", "cloud">>, requiredSkills |-> <<"go", "kafka">>,
    techStack |-> <<"go", "kafka", "redis">>],
   [company |-> <<"globex">>, requiredSkills |-> <<"rust">>,
    techStack |-> <<"go", "go">>]}

ParsedResumes == {[yearsOfExperience |-> 7]}

FitAnalyses == {[overallScore |-> 80]}

\* cover letters a model call can return
CoverLetterTexts ==
  {[empty |-> FALSE, words |-> 450, mentions |-> {"acme", "globex", "go", "rust"}],
   [empty |-> FALSE, words |-> 120, mentions |-> {"acme", "globex", "go", "rust"}]}

\* bullet lists a model call can return: number of bullets and keywords used;
\* the schema accepts an empty array of bullets
BulletData ==
  {[count |-> 4, mentions |-> {"go", "kafka"}],
   [count |-> 0, mentions |-> {}]}

\* interview-prep data a model call can return
InterviewData == {[mentions |-> {"go"}]}

\* the usage record of a model call
Usages == {[inputTokens |-> 0, outputTokens |-> 0], [inputTokens |-> 2, outputTokens |-> 1]}

\* messages structured() can reject with
CallErrors == {"Invalid API key. Check your ANTHROPIC_API_KEY."}

\* the input texts: blank, or with content
InputTexts == {"  ", "text"}

\* !text.trim()
IsBlank(text) == text \in {"", "  "}

\* text.toLowerCase().includes(k)
Contains(text, k) == k = "" \/ k \in text.mentions

\* company.toLowerCase().split(" ")[0]
FirstToken(company) == IF company = <<>> THEN "" ELSE company[1]

\* !outputs.x : null or the empty string
Missing(text) == text = Null \/ text.empty

\* generateCoverLetter: the coverLetter field of the response is the artifact
generateCoverLetter(data) == data

\* generateResumeBullets: one "- **...**" line per bullet, joined by blank lines
generateResumeBullets(data) ==
  [empty |-> data.count = 0, bullets |-> data.count, mentions |-> data.mentions]

\* generateInterviewPrep: a header naming role and company, then the three sections
generateInterviewPrep(jd, data) ==
  [empty |-> FALSE, sections |-> SectionHeaders,
   mentions |-> data.mentions \cup Range(jd.company)]

----------------------------------------------------------------------------
(* The quality validator *)

MAX_COVER_LETTER_WORDS == 450
MIN_COVER_LETTER_WORDS == 150
MIN_BULLETS == 4
MIN_KEYWORD_HITS == 2

\* the upper length test with >= in place of >
TooLong_Inclusive(wordCount) == wordCount >= MAX_COVER_LETTER_WORDS

\* wordCount > MAX_COVER_LETTER_WORDS
TooLong(wordCount) == wordCount > MAX_COVER_LETTER_WORDS

\* wordCount < MIN_COVER_LETTER_WORDS
TooShort(wordCount) == wordCount < MIN_COVER_LETTER_WORDS

\* the cover-letter checks as an else-if chain that stops at the first violation
CoverLetterIssues_FirstOnly(text, jd) ==
  IF Missing(text) THEN <<<<"Cover letter is missing">>>>
  ELSE IF TooLong(text.words)
    THEN <<<<"Cover letter too long: ", text.words, " words (max ",
             MAX_COVER_LETTER_WORDS, ")">>>>
  ELSE IF TooShort(text.words)
    THEN <<<<"Cover letter too short: ", text.words, " words (min ",
             MIN_COVER_LETTER_WORDS, ")">>>>
  ELSE IF ~Contains(text, FirstToken(jd.company))
    THEN <<<<"Cover letter doesn't mention the company name">>>>
  ELSE IF ~(\E i \in 1..Len(jd.requiredSkills) : Contains(text, jd.requiredSkills[i]))
    THEN <<<<"Cover letter doesn't reference any required skills from the JD">>>>
  ELSE <<>>

\* the issues of the cover-letter section, in the order of its checks
CoverLetterIssues(text, jd) ==
  IF Missing(text) THEN <<<<"Cover letter is missing">>>>
  ELSE
    (IF TooLong(text.words)
       THEN <<<<"Cover letter too long: ", text.words, " words (max ",
                MAX_COVER_LETTER_WORDS, ")">>>>
       ELSE <<>>)
    \o (IF TooShort(text.words)
          THEN <<<<"Cover letter too short: ", text.words, " words (min ",
                   MIN_COVER_LETTER_WORDS, ")">>>>
          ELSE <<>>)
    \o (IF ~Contains(text, FirstToken(jd.company))
          THEN <<<<"Cover letter doesn't mention the company name">>>>
          ELSE <<>>)
    \o (IF ~(\E i \in 1..Len(jd.requiredSkills) : Contains(text, jd.requiredSkills[i]))
          THEN <<<<"Cover letter doesn't reference any required skills from the JD">>>>
          ELSE <<>>)

KeywordHits(text, jd) ==
  LET Hit(k) == Contains(text, k)
  IN  Len(SelectSeq(jd.techStack, Hit))

BulletsIssues(text, jd) ==
  IF Missing(text) THEN <<<<"Resume bullets are missing">>>>
  ELSE
    (IF text.bullets < MIN_BULLETS
       THEN <<<<"Too few resume bullets: ", text.bullets, " (min ", MIN_BULLETS, ")">>>>
       ELSE <<>>)
    \o (IF KeywordHits(text, jd) < MIN_KEYWORD_HITS
          THEN <<<<"Resume bullets only reference ", KeywordHits(text, jd),
                   " tech stack keywords (need at least 2)">>>>
          ELSE <<>>)

InterviewPrepIssues(text, jd) ==
  IF Missing(text) THEN <<<<"Interview prep is missing">>>>
  ELSE
    (IF ~(SectionHeaders \subseteq text.sections)
       THEN <<<<"Interview prep missing one or more sections (Technical, Behavioral, Questions to Ask)">>>>
       ELSE <<>>)
    \o (IF ~Contains(text, FirstToken(jd.company))
          THEN <<<<"Interview prep appears generic - doesn't mention the company">>>>
          ELSE <<>>)

\* the conjunction without the interview-prep flag
Passed_WithoutPrep(coverLetterValid, bulletsValid, interviewPrepValid) ==
  coverLetterValid /\ bulletsValid

\* const passed = coverLetterValid && bulletsValid && interviewPrepValid
Passed(coverLetterValid, bulletsValid, interviewPrepValid) ==
  coverLetterValid /\ bulletsValid /\ interviewPrepValid

\* validateOutputs with one flag shared by the three sections
validateOutputs_SharedFlag(outputs, jd) ==
  LET cl == CoverLetterIssues(outputs.coverLetter, jd)
      bu == BulletsIssues(outputs.tailoredBullets, jd)
      ip == InterviewPrepIssues(outputs.interviewPrep, jd)
      valid == cl = <<>> /\ bu = <<>> /\ ip = <<>>
  IN  [passed             |-> Passed(valid, valid, valid),
       coverLetterValid   |-> valid,
       bulletsValid       |-> valid,
       interviewPrepValid |-> valid,
       issues             |-> cl \o bu \o ip]

\* each flag starts true and is cleared where its section pushes an issue
validateOutputs(outputs, jd) ==
  LET cl == CoverLetterIssues(outputs.coverLetter, jd)
      bu == BulletsIssues(outputs.tailoredBullets, jd)
      ip == InterviewPrepIssues(outputs.interviewPrep, jd)
  IN  [passed             |-> Passed(cl = <<>>, bu = <<>>, ip = <<>>),
       coverLetterValid   |-> cl = <<>>,
       bulletsValid       |-> bu = <<>>,
       interviewPrepValid |-> ip = <<>>,
       issues             |-> cl \o bu \o ip]

\* the per-artifact flag of a ValidationResult
ValidFlag(v, a) ==
  CASE a = "coverLetter"     -> v.coverLetterValid
    [] a = "tailoredBullets" -> v.bulletsValid
    [] a = "interviewPrep"   -> v.interviewPrepValid

----------------------------------------------------------------------------
(* The pipeline context *)

createPipelineContext(jdText, resumeText) ==
  [jdText             |-> jdText,
   resumeText         |-> resumeText,
   parsedJD           |-> Null,
   parsedResume       |-> Null,
   fitAnalysis        |-> Null,
   outputs            |-> [coverLetter |-> Null, tailoredBullets |-> Null,
                           interviewPrep |-> Null],
   validation         |-> Null,
   validationAttempts |-> 0,
   currentState       |-> "INTAKE",
   stateHistory       |-> <<[state |-> "INTAKE", timestamp |-> 0]>>,
   errors             |-> <<>>,
   startTime          |-> 0,
   tokenUsage         |-> [inputTokens |-> 0, outputTokens |-> 0]]

\* !lastEntry.durationMs : the property is absent, or 0
NoDuration(entry) == "durationMs" \notin DOMAIN entry \/ entry.durationMs = 0

\* transitionTo that overwrites the last entry instead of pushing a new one
transitionTo_Overwrite(c, next, t) ==
  [c EXCEPT !.stateHistory = [@ EXCEPT ![Len(@)] = [state |-> next, timestamp |-> t]],
            !.currentState = next]

\* transitionTo that recomputes the duration of every entry on each transition
transitionTo_Restamps(c, next, t) ==
  LET h == c.stateHistory
      restamped == [k \in 1..Len(h) |->
                      [state |-> h[k].state, timestamp |-> h[k].timestamp,
                       durationMs |-> t - h[k].timestamp]]
  IN  [c EXCEPT !.stateHistory = Append(restamped, [state |-> next, timestamp |-> t]),
                !.currentState = next]

\* transitionTo without the assignment to ctx.currentState
transitionTo_HistoryOnly(c, next, t) ==
  LET h == c.stateHistory
      n == Len(h)
      closed == IF n > 0 /\ NoDuration(h[n])
                  THEN [h EXCEPT ![n] = [state |-> h[n].state, timestamp |-> h[n].timestamp,
                                         durationMs |-> t - h[n].timestamp]]
                  ELSE h
  IN  [c EXCEPT !.stateHistory = Append(closed, [state |-> next, timestamp |-> t])]

\* transitionTo(ctx, next) with Date.now() = t
transitionTo(c, next, t) ==
  LET h      == c.stateHistory
      n      == Len(h)
      closed == IF n > 0 /\ NoDuration(h[n])
                  THEN [h EXCEPT ![n] = [state |-> h[n].state, timestamp |-> h[n].timestamp,
                                         durationMs |-> t - h[n].timestamp]]
                  ELSE h
  IN  [c EXCEPT !.stateHistory = Append(closed, [state |-> next, timestamp |-> t]),
                !.currentState = next]

\* an accumulator that counts the usage of a result twice
addTokenUsage_Twice(c, usage) ==
  [c EXCEPT !.tokenUsage = [inputTokens  |-> @.inputTokens + 2 * usage.inputTokens,
                            outputTokens |-> @.outputTokens + 2 * usage.outputTokens]]

addTokenUsage(c, usage) ==
  [c EXCEPT !.tokenUsage = [inputTokens  |-> @.inputTokens + usage.inputTokens,
                            outputTokens |-> @.outputTokens + usage.outputTokens]]

\* `${currentState}: ${err.message}`
ErrorEntry(state, msg) == <<state, ": ", msg>>

\* `No handler registered for state: ${currentState}`
NoHandlerMessage(state) == <<"No handler registered for state: ", state>>

----------------------------------------------------------------------------
(* The initial state: runGraph(graph, ctx, llm, PARSE_JD, onStateChange) is
   called on a fresh context *)

\* validateOutputs is not called directly
ValidatorIdle ==
  /\ testOutputs = Null
  /\ testJD = Null
  /\ testResult = Null
  /\ testBefore = Null

\* no LLMClient is driven directly
ClientIdle ==
  /\ llm = <<>>
  /\ invocation = <<>>

Init ==
  /\ graph \in {createAgentGraph} \cup StubGraphs
  /\ onStateChange \in {"absent", "given"}
  /\ \E jdText \in InputTexts, resumeText \in InputTexts :
       /\ graph # createAgentGraph => jdText = "text" /\ resumeText = "text"
       /\ ctx = createPipelineContext(jdText, resumeText)
  /\ cur = "PARSE_JD"
  /\ pc = "loop"
  /\ rejection = NoError
  /\ executed = <<>>
  /\ notified = <<>>
  /\ thrown = <<>>
  /\ validationLog = <<>>
  /\ tasks = [a \in Artifacts |-> [status |-> "idle"]]
  /\ calls = [site \in {"jd", "resume", "fit"} \cup Artifacts |-> 0]
  /\ now = 0
  /\ ValidatorIdle
  /\ ClientIdle

\* what a throwing onStateChange callback throws
CallbackError == <<"onStateChange failed">>

\* onStateChange?.(currentState, ctx): the calls made so far, this one included
Notified(state) ==
  IF onStateChange = "absent" THEN notified ELSE Append(notified, state)

\* the values Date.now() can return next
Ticks == {t \in now..MaxClock : t <= now + 1}

----------------------------------------------------------------------------
(* runGraph *)

\* the handler returned `next`: currentState = await handler(ctx, llm)
Returned(next) ==
  /\ cur' = next
  /\ pc' = "loop"

\* the catch block with its last two statements swapped: the entry names ERROR
CatchBlock_StateAfterAssign(c, state, msg) ==
  [c EXCEPT !.errors = Append(@, ErrorEntry("ERROR", msg))]

\* ctx.errors.push(`${currentState}: ${err.message}`)
CatchBlock(c, state, msg) == [c EXCEPT !.errors = Append(@, ErrorEntry(state, msg))]

\* a catch block that moves to ERROR without recording the message
Threw_Swallowed(c, msg) ==
  /\ thrown' = Append(thrown, [state |-> cur, msg |-> msg])
  /\ ctx' = c
  /\ cur' = "ERROR"
  /\ pc' = "loop"

\* the handler threw msg after leaving the context as c: the catch block
Threw(c, msg) ==
  /\ thrown' = Append(thrown, [state |-> cur, msg |-> msg])
  /\ ctx' = CatchBlock(c, cur, msg)
  /\ cur' = "ERROR"
  /\ pc' = "loop"

\* the loop exit without the transition to the terminal state
LoopExit_NoTransition ==
  /\ pc = "loop"
  /\ cur \in graph.terminalStates
  /\ notified' = Notified(cur)
  /\ pc' = "done"
  /\ UNCHANGED <<unitVars, graph, onStateChange, ctx, cur, rejection, executed, thrown, validationLog,
                 tasks, calls, now>>

\* the loop exit without the last onStateChange call
LoopExit_NoNotify ==
  /\ pc = "loop"
  /\ cur \in graph.terminalStates
  /\ \E t \in Ticks : ctx' = transitionTo(ctx, cur, t) /\ now' = t
  /\ pc' = "done"
  /\ UNCHANGED <<unitVars, graph, onStateChange, cur, rejection, executed, notified, thrown, validationLog,
                 tasks, calls>>

\* the loop condition is false: the transition to the terminal state and the
\* last onStateChange call, which returns
LoopExit ==
  /\ pc = "loop"
  /\ cur \in graph.terminalStates
  /\ \E t \in Ticks : ctx' = transitionTo(ctx, cur, t) /\ now' = t
  /\ notified' = Notified(cur)
  /\ pc' = "done"
  /\ UNCHANGED <<unitVars, graph, onStateChange, cur, rejection, executed, thrown, validationLog, tasks, calls>>

\* the loop condition is false and the last onStateChange call throws: runGraph
\* rejects after the transition to the terminal state
LoopExitCallbackThrows ==
  /\ pc = "loop"
  /\ cur \in graph.terminalStates
  /\ onStateChange = "given"
  /\ \E t \in Ticks : ctx' = transitionTo(ctx, cur, t) /\ now' = t
  /\ notified' = Notified(cur)
  /\ rejection' = CallbackError
  /\ pc' = "rejected"
  /\ UNCHANGED <<unitVars, graph, onStateChange, cur, executed, thrown, validationLog, tasks, calls>>

\* the handler lookup placed after transitionTo and onStateChange
MissingHandler_AfterTransition ==
  /\ pc = "loop"
  /\ cur \notin graph.terminalStates
  /\ graph.nodes[cur] = NoHandler
  /\ \E t \in Ticks : ctx' = transitionTo(ctx, cur, t) /\ now' = t
  /\ notified' = Notified(cur)
  /\ rejection' = NoHandlerMessage(cur)
  /\ pc' = "rejected"
  /\ UNCHANGED <<unitVars, graph, onStateChange, cur, executed, thrown, validationLog, tasks, calls>>

\* graph.nodes.get(currentState) is undefined: runGraph throws
MissingHandler ==
  /\ pc = "loop"
  /\ cur \notin graph.terminalStates
  /\ graph.nodes[cur] = NoHandler
  /\ rejection' = NoHandlerMessage(cur)
  /\ pc' = "rejected"
  /\ UNCHANGED <<unitVars, graph, onStateChange, ctx, cur, executed, notified, thrown, validationLog, tasks, calls, now>>

\* transitionTo(ctx, currentState); onStateChange?.(currentState, ctx) returns
EnterState ==
  /\ pc = "loop"
  /\ cur \notin graph.terminalStates
  /\ graph.nodes[cur] # NoHandler
  /\ Len(ctx.stateHistory) < MaxHistory
  /\ \E t \in Ticks : ctx' = transitionTo(ctx, cur, t) /\ now' = t
  /\ notified' = Notified(cur)
  /\ pc' = "invoke"
  /\ UNCHANGED <<unitVars, graph, onStateChange, cur, rejection, executed, thrown, validationLog, tasks, calls>>

\* onStateChange called inside the try block: its exception is recorded in
\* ctx.errors and rethrown
EnterStateCallbackThrows_Recorded ==
  /\ pc = "loop"
  /\ cur \notin graph.terminalStates
  /\ graph.nodes[cur] # NoHandler
  /\ Len(ctx.stateHistory) < MaxHistory
  /\ onStateChange = "given"
  /\ \E t \in Ticks :
       /\ ctx' = CatchBlock(transitionTo(ctx, cur, t), cur, CallbackError)
       /\ now' = t
  /\ notified' = Notified(cur)
  /\ rejection' = CallbackError
  /\ pc' = "rejected"
  /\ UNCHANGED <<unitVars, graph, onStateChange, cur, executed, thrown, validationLog, tasks, calls>>

\* transitionTo(ctx, currentState), then onStateChange throws: the call is
\* outside the try block, runGraph rejects and the handler is not invoked
EnterStateCallbackThrows ==
  /\ pc = "loop"
  /\ cur \notin graph.terminalStates
  /\ graph.nodes[cur] # NoHandler
  /\ Len(ctx.stateHistory) < MaxHistory
  /\ onStateChange = "given"
  /\ \E t \in Ticks : ctx' = transitionTo(ctx, cur, t) /\ now' = t
  /\ notified' = Notified(cur)
  /\ rejection' = CallbackError
  /\ pc' = "rejected"
  /\ UNCHANGED <<unitVars, graph, onStateChange, cur, executed, thrown, validationLog, tasks, calls>>

----------------------------------------------------------------------------
(* Handlers of hand-built graphs *)

StubReturns ==
  /\ pc = "invoke"
  /\ graph.nodes[cur].kind = "ret"
  /\ executed' = Append(executed, cur)
  /\ Returned(graph.nodes[cur].next)
  /\ UNCHANGED <<unitVars, graph, onStateChange, ctx, rejection, notified, thrown, validationLog, tasks, calls, now>>

StubThrows ==
  /\ pc = "invoke"
  /\ graph.nodes[cur].kind = "throw"
  /\ executed' = Append(executed, cur)
  /\ Threw(ctx, graph.nodes[cur].msg)
  /\ UNCHANGED <<unitVars, graph, onStateChange, rejection, notified, validationLog, tasks, calls, now>>

----------------------------------------------------------------------------
(* Handlers of the default graph *)

IsReal(state) == pc = "invoke" /\ cur = state /\ graph.nodes[cur].kind = "real"

Called(site) == [calls EXCEPT ![site] = @ + 1]

\* handleParseJD up to the await: parseJobDescription checks the text and calls the model
HandleParseJD ==
  /\ IsReal("PARSE_JD")
  /\ executed' = Append(executed, cur)
  /\ IF IsBlank(ctx.jdText)
       THEN Threw(ctx, "Job description text is empty") /\ calls' = calls
       ELSE pc' = "await" /\ calls' = Called("jd") /\ UNCHANGED <<ctx, cur, thrown>>
  /\ UNCHANGED <<unitVars, graph, onStateChange, rejection, notified, validationLog, tasks, now>>

\* handleParseJD returning ANALYZE_FIT, past the resume parser
ParseJDReturns_SkipsResume ==
  /\ pc = "await" /\ cur = "PARSE_JD"
  /\ \E data \in ParsedJDs, usage \in Usages :
       ctx' = addTokenUsage([ctx EXCEPT !.parsedJD = data], usage)
  /\ Returned("ANALYZE_FIT")
  /\ UNCHANGED <<unitVars, graph, onStateChange, rejection, executed, notified, thrown, validationLog, tasks, calls, now>>

\* the awaited parseJobDescription fulfils: the rest of handleParseJD
ParseJDReturns ==
  /\ pc = "await" /\ cur = "PARSE_JD"
  /\ \E data \in ParsedJDs, usage \in Usages :
       ctx' = addTokenUsage([ctx EXCEPT !.parsedJD = data], usage)
  /\ Returned("PARSE_RESUME")
  /\ UNCHANGED <<unitVars, graph, onStateChange, rejection, executed, notified, thrown, validationLog, tasks, calls, now>>

\* handleParseResume up to the await: parseResume checks the text, then the cache
HandleParseResume ==
  /\ IsReal("PARSE_RESUME")
  /\ executed' = Append(executed, cur)
  /\ \/ /\ IsBlank(ctx.resumeText)
        /\ Threw(ctx, "Resume text is empty")
        /\ calls' = calls
     \/ /\ ~IsBlank(ctx.resumeText)
        /\ \E data \in ParsedResumes, usage \in Usages :
             ctx' = addTokenUsage([ctx EXCEPT !.parsedResume = data], usage)
        /\ Returned("ANALYZE_FIT")
        /\ calls' = calls
        /\ thrown' = thrown
     \/ /\ ~IsBlank(ctx.resumeText)
        /\ pc' = "await"
        /\ calls' = Called("resume")
        /\ UNCHANGED <<ctx, cur, thrown>>
  /\ UNCHANGED <<unitVars, graph, onStateChange, rejection, notified, validationLog, tasks, now>>

ParseResumeReturns ==
  /\ pc = "await" /\ cur = "PARSE_RESUME"
  /\ \E data \in ParsedResumes, usage \in Usages :
       ctx' = addTokenUsage([ctx EXCEPT !.parsedResume = data], usage)
  /\ Returned("ANALYZE_FIT")
  /\ UNCHANGED <<unitVars, graph, onStateChange, rejection, executed, notified, thrown, validationLog, tasks, calls, now>>

\* handleAnalyzeFit up to the await
HandleAnalyzeFit ==
  /\ IsReal("ANALYZE_FIT")
  /\ executed' = Append(executed, cur)
  /\ pc' = "await"
  /\ calls' = Called("fit")
  /\ UNCHANGED <<unitVars, graph, onStateChange, ctx, cur, rejection, notified, thrown, validationLog, tasks, now>>

AnalyzeFitReturns ==
  /\ pc = "await" /\ cur = "ANALYZE_FIT"
  /\ \E data \in FitAnalyses, usage \in Usages :
       ctx' = addTokenUsage([ctx EXCEPT !.fitAnalysis = data], usage)
  /\ Returned("GENERATE_OUTPUTS")
  /\ UNCHANGED <<unitVars, graph, onStateChange, rejection, executed, notified, thrown, validationLog, tasks, calls, now>>

\* the awaited structured() call of a parsing or analysis handler rejects
CallRejects ==
  /\ pc = "await"
  /\ \E msg \in CallErrors : Threw(ctx, msg)
  /\ UNCHANGED <<unitVars, graph, onStateChange, rejection, executed, notified, validationLog, tasks, calls, now>>

----------------------------------------------------------------------------
(* GENERATE_OUTPUTS: the fan-out of the generation sub-tasks *)

\* every generator runs on every attempt
NeedsGeneration_Always(c, a) == TRUE

\* the negation of the per-artifact flag dropped
NeedsGeneration_Inverted(c, a) == c.validation = Null \/ ValidFlag(c.validation, a)

\* !ctx.validation || !ctx.validation.<artifact>Valid
NeedsGeneration(c, a) == c.validation = Null \/ ~ValidFlag(c.validation, a)

\* what the model can answer to the generator of artifact a
ResponsesFor(a) ==
  CASE a = "coverLetter"     -> CoverLetterTexts
    [] a = "tailoredBullets" -> BulletData
    [] a = "interviewPrep"   -> InterviewData

\* the data of the generator's result, from the model's response
Generated(a, jd, data) ==
  CASE a = "coverLetter"     -> generateCoverLetter(data)
    [] a = "tailoredBullets" -> generateResumeBullets(data)
    [] a = "interviewPrep"   -> generateInterviewPrep(jd, data)

\* handleGenerateOutputs up to the await of Promise.all
HandleGenerateOutputs ==
  /\ IsReal("GENERATE_OUTPUTS")
  /\ executed' = Append(executed, cur)
  /\ ctx' = [ctx EXCEPT !.validationAttempts = @ + 1]
  /\ tasks' = [a \in Artifacts |->
                 IF NeedsGeneration(ctx, a) THEN [status |-> "pending"]
                                            ELSE [status |-> "skip"]]
  /\ calls' = [site \in DOMAIN calls |->
                 IF site \in Artifacts /\ NeedsGeneration(ctx, site)
                   THEN calls[site] + 1 ELSE calls[site]]
  /\ pc' = "join"
  /\ UNCHANGED <<unitVars, graph, onStateChange, cur, rejection, notified, thrown, validationLog, now>>

\* the sub-tasks of the attempt that have settled so far
SettledTasks == {a \in Artifacts : tasks[a].status \in {"fulfilled", "rejected"}}

\* a sub-task's promise fulfils, after `order` other sub-tasks of the attempt
TaskFulfils(a) ==
  /\ tasks[a].status = "pending"
  /\ \E data \in ResponsesFor(a), usage \in Usages :
       tasks' = [tasks EXCEPT ![a] = [status |-> "fulfilled",
                                      data   |-> Generated(a, ctx.parsedJD, data),
                                      usage  |-> usage,
                                      order  |-> Cardinality(SettledTasks)]]
  /\ UNCHANGED <<unitVars, graph, onStateChange, ctx, cur, pc, rejection, executed, notified, thrown, validationLog,
                 calls, now>>

\* a sub-task whose rejection is swallowed, as with a .catch on each generator
TaskRejects_Swallowed(a) ==
  /\ tasks[a].status = "pending"
  /\ \E msg \in CallErrors :
       tasks' = [tasks EXCEPT ![a] = [status |-> "rejected", error |-> msg]]
  /\ UNCHANGED <<unitVars, graph, onStateChange, ctx, cur, pc, rejection, executed, notified, thrown,
                 validationLog, calls, now>>

\* the usage of the result assigned to ctx.tokenUsage instead of added to it
StoreResult_LostUpdate(c, a) ==
  IF tasks[a].status = "fulfilled"
    THEN [c EXCEPT !.outputs[a] = tasks[a].data, !.tokenUsage = tasks[a].usage]
    ELSE c

\* ctx.outputs.<a> = result.data; addTokenUsage(...) when the result is not null
StoreResult(c, a) ==
  IF tasks[a].status = "fulfilled"
    THEN addTokenUsage([c EXCEPT !.outputs[a] = tasks[a].data], tasks[a].usage)
    ELSE c

\* a handler that stores the results of the fulfilled siblings before it fails,
\* as with Promise.allSettled followed by a throw
TaskRejects_StoresSiblings(a) ==
  /\ tasks[a].status = "pending"
  /\ \E msg \in CallErrors :
       /\ tasks' = [tasks EXCEPT ![a] = [status |-> "rejected", error |-> msg]]
       /\ IF pc = "join"
            THEN Threw(StoreResult(StoreResult(StoreResult(ctx, "coverLetter"),
                                               "tailoredBullets"), "interviewPrep"), msg)
            ELSE UNCHANGED <<ctx, cur, pc, thrown>>
  /\ UNCHANGED <<unitVars, graph, onStateChange, rejection, executed, notified, validationLog, calls, now>>

\* a sub-task's promise rejects: Promise.all rejects with the first rejection,
\* and the handler, if it still awaits, throws it
TaskRejects(a) ==
  /\ tasks[a].status = "pending"
  /\ \E msg \in CallErrors :
       /\ tasks' = [tasks EXCEPT ![a] = [status |-> "rejected", error |-> msg]]
       /\ IF pc = "join" THEN Threw(ctx, msg) ELSE UNCHANGED <<ctx, cur, pc, thrown>>
  /\ UNCHANGED <<unitVars, graph, onStateChange, rejection, executed, notified, validationLog, calls, now>>

\* Promise.all fulfils: the handler stores the results and returns VALIDATE;
\* the promises of the attempt are gone with the handler's frame
JoinAll ==
  /\ pc = "join"
  /\ \A a \in Artifacts : tasks[a].status \in {"skip", "fulfilled"}
  /\ ctx' = StoreResult(StoreResult(StoreResult(ctx, "coverLetter"), "tailoredBullets"),
                        "interviewPrep")
  /\ tasks' = [a \in Artifacts |-> [status |-> "idle"]]
  /\ Returned("VALIDATE")
  /\ UNCHANGED <<unitVars, graph, onStateChange, rejection, executed, notified, thrown, validationLog, calls, now>>

----------------------------------------------------------------------------
(* VALIDATE *)

\* handleValidate with <= in place of < in the retry test
NextAfterValidate_OffByOne(v, attempts) ==
  IF v.passed THEN "DONE"
  ELSE IF attempts <= MAX_VALIDATION_ATTEMPTS THEN "GENERATE_OUTPUTS"
  ELSE "DONE"

\* handleValidate failing the run once the attempts are exhausted
NextAfterValidate_FailOnExhaust(v, attempts) ==
  IF v.passed THEN "DONE"
  ELSE IF attempts < MAX_VALIDATION_ATTEMPTS THEN "GENERATE_OUTPUTS"
  ELSE "ERROR"

\* handleValidate with a retry edge that restarts the pipeline at PARSE_JD
NextAfterValidate_Restart(v, attempts) ==
  IF v.passed THEN "DONE"
  ELSE IF attempts < MAX_VALIDATION_ATTEMPTS THEN "PARSE_JD"
  ELSE "DONE"

\* handleValidate with a retry edge that goes back to the fit analysis
NextAfterValidate_Reanalyze(v, attempts) ==
  IF v.passed THEN "DONE"
  ELSE IF attempts < MAX_VALIDATION_ATTEMPTS THEN "ANALYZE_FIT"
  ELSE "DONE"

\* handleValidate without the attempt limit
NextAfterValidate_NoLimit(v, attempts) ==
  IF v.passed THEN "DONE" ELSE "GENERATE_OUTPUTS"

\* handleValidate accepting the first validation result, failed or not
NextAfterValidate_NoRetry(v, attempts) == "DONE"

\* the state handleValidate returns for validation result v
NextAfterValidate(v, attempts) ==
  IF v.passed THEN "DONE"
  ELSE IF attempts < MAX_VALIDATION_ATTEMPTS THEN "GENERATE_OUTPUTS"
  ELSE "DONE"

HandleValidate ==
  /\ IsReal("VALIDATE")
  /\ executed' = Append(executed, cur)
  /\ LET v == validateOutputs(ctx.outputs, ctx.parsedJD)
     IN  /\ ctx' = [ctx EXCEPT !.validation = v]
         /\ validationLog' = Append(validationLog, v)
         /\ Returned(NextAfterValidate(v, ctx.validationAttempts))
  /\ UNCHANGED <<unitVars, graph, onStateChange, rejection, notified, thrown, tasks, calls, now>>

----------------------------------------------------------------------------
(* runOrchestrator *)

\* a runOrchestrator that rethrows the recorded error of a run that ended in ERROR
runOrchestrator_ThrowsOnError ==
  IF pc = "done" /\ ctx.currentState # "ERROR"
    THEN [status |-> "resolved", context |-> ctx, success |-> TRUE,
          totalDurationMs |-> now - ctx.startTime]
  ELSE IF pc = "done"
    THEN [status |-> "rejected", error |-> Last(ctx.errors)]
  ELSE IF pc = "rejected"
    THEN [status |-> "rejected", error |-> rejection]
  ELSE Null

\* what the promise of runOrchestrator settles with once runGraph has settled:
\* the result built from the context, or the rejection of the awaited runGraph;
\* result.tokenUsage is the client's getUsageSummary(), of the client part
runOrchestrator ==
  IF pc = "done"
    THEN [status |-> "resolved", context |-> ctx,
          success |-> ctx.currentState = "DONE",
          totalDurationMs |-> now - ctx.startTime]
  ELSE IF pc = "rejected"
    THEN [status |-> "rejected", error |-> rejection]
  ELSE Null

----------------------------------------------------------------------------
(* The specification *)

Next ==
  \/ LoopExit
  \/ LoopExitCallbackThrows
  \/ MissingHandler
  \/ EnterState
  \/ EnterStateCallbackThrows
  \/ StubReturns
  \/ StubThrows
  \/ HandleParseJD
  \/ ParseJDReturns
  \/ HandleParseResume
  \/ ParseResumeReturns
  \/ HandleAnalyzeFit
  \/ AnalyzeFitReturns
  \/ CallRejects
  \/ HandleGenerateOutputs
  \/ \E a \in Artifacts : TaskFulfils(a)
  \/ \E a \in Artifacts : TaskRejects(a)
  \/ JoinAll
  \/ HandleValidate

Spec == Init /\ [][Next]_vars

\* every step of the run is eventually taken: the event loop runs every
\* continuation, and every model call eventually returns or raises
FairSpec == Spec /\ WF_vars(Next)

----------------------------------------------------------------------------
(* Direct calls of validateOutputs, as the validator's tests make them *)

\* runGraph is not called: a fresh context and nothing running
PipelineIdle ==
  /\ graph = createAgentGraph
  /\ onStateChange = "absent"
  /\ ctx = createPipelineContext("text", "text")
  /\ cur = "PARSE_JD"
  /\ pc = "idle"
  /\ rejection = NoError
  /\ executed = <<>>
  /\ notified = <<>>
  /\ thrown = <<>>
  /\ validationLog = <<>>
  /\ tasks = [a \in Artifacts |-> [status |-> "idle"]]
  /\ calls = [site \in {"jd", "resume", "fit"} \cup Artifacts |-> 0]
  /\ now = 0

\* word counts around both limits of the cover letter
WordCounts ==
  {MIN_COVER_LETTER_WORDS - 1, MIN_COVER_LETTER_WORDS, MIN_COVER_LETTER_WORDS + 1,
   MAX_COVER_LETTER_WORDS - 1, MAX_COVER_LETTER_WORDS, MAX_COVER_LETTER_WORDS + 1}

\* the empty string
EmptyText == [empty |-> TRUE]

\* cover letters: null, empty, or a text with a word count and keywords
CoverLetterCases ==
  {Null, EmptyText}
    \cup {[empty |-> FALSE, words |-> w, mentions |-> m] :
            w \in WordCounts, m \in {{"acme", "go"}, {"acme"}, {"go"}}}

\* bullet lists: null, or a text with "- " lines and keywords
BulletCases ==
  {Null}
    \cup {[empty |-> FALSE, bullets |-> n, mentions |-> m] :
            n \in {MIN_BULLETS - 1, MIN_BULLETS}, m \in {{"go", "kafka"}, {"go"}}}

\* interview preps: null, or a text with section headers and keywords
InterviewPrepCases ==
  {Null}
    \cup {[empty |-> FALSE, sections |-> h, mentions |-> m] :
            h \in {SectionHeaders, {"Technical Questions"}}, m \in {{"acme"}, {}}}

CasesFor(a) ==
  CASE a = "coverLetter"     -> CoverLetterCases
    [] a = "tailoredBullets" -> BulletCases
    [] a = "interviewPrep"   -> InterviewPrepCases

ValidatorInit ==
  /\ testOutputs \in [coverLetter : CoverLetterCases, tailoredBullets : BulletCases,
                       interviewPrep : InterviewPrepCases]
  /\ testJD \in ParsedJDs
  /\ testResult = Null
  /\ testBefore = Null
  /\ PipelineIdle
  /\ ClientIdle

\* const result = validateOutputs(outputs, mockParsedJD)
ValidateDirect ==
  /\ testResult = Null
  /\ testResult' = validateOutputs(testOutputs, testJD)
  /\ UNCHANGED <<testOutputs, testJD, testBefore, pipelineVars, clientVars>>

\* outputs.<a> = ...; const result = validateOutputs(outputs, mockParsedJD)
ValidateChanged(a) ==
  /\ testResult # Null
  /\ testBefore = Null
  /\ \E text \in CasesFor(a) \ {testOutputs[a]} :
       /\ testOutputs' = [testOutputs EXCEPT ![a] = text]
       /\ testResult' = validateOutputs(testOutputs', testJD)
  /\ testBefore' = [outputs |-> testOutputs, result |-> testResult]
  /\ UNCHANGED <<testJD, pipelineVars, clientVars>>

ValidatorNext ==
  \/ ValidateDirect
  \/ \E a \in Artifacts : ValidateChanged(a)

ValidatorSpec == ValidatorInit /\ [][ValidatorNext]_vars

----------------------------------------------------------------------------
(* LLMClient: two instances, each running one structured() call *)

Instances == {"A", "B"}

\* the largest maxRetries an instance is configured with
MaxRetriesBound == 3

\* direct appends to an instance's usageLog, as the usage test makes them
MaxDirectPushes == 1

\* maxRetries: 2 is what every caller of the repository passes
CALLER_MAX_RETRIES == 2

\* attempt >= 2: from this attempt index on a schema error is fatal
SCHEMA_FATAL_ATTEMPT == 2

\* the schema of the retry tests: z.object({ foo: z.string(), n: z.number() })
SchemaFields == <<"foo", "n">>

\* JSON.parse results the remote side can send
ParsedPayloads ==
  {[foo |-> "ok", n |-> 1],
   [foo |-> "ok", n |-> 1, extra |-> "x"],
   [n |-> 1],
   [bar |-> "nope"]}

\* the issues of schema.parse(parsed): one per missing field, in schema order
SchemaIssues(parsed) ==
  LET Absent(f) == f \notin DOMAIN parsed
      missing == SelectSeq(SchemaFields, Absent)
  IN  [k \in 1..Len(missing) |-> [path |-> <<missing[k]>>, message |-> "Required"]]

\* the parsed value handed back without the schema check
SchemaParse_Unchecked(parsed) == parsed

\* schema.parse(parsed) when it succeeds: the declared fields, unknown keys stripped
SchemaParse(parsed) == [f \in Range(SchemaFields) |-> parsed[f]]

\* what messages.create can do on one attempt: throw, or return a response
RemoteErrors == {[name |-> "AuthenticationError", status |-> 401],
                 [name |-> "APIConnectionError", status |-> 0]}

\* the content of a response: no text block, text that is not JSON, or JSON
ResponseContents ==
  {[kind |-> "notext"], [kind |-> "malformed"]}
    \cup {[kind |-> "json", parsed |-> d] : d \in ParsedPayloads}

\* response.usage of the remote side of instance i
UsageOf(i) ==
  IF i = "A" THEN [inputTokens |-> 10, outputTokens |-> 5]
             ELSE [inputTokens |-> 2, outputTokens |-> 1]

\* usage records the usage test pushes into a log
DirectUsages == {[inputTokens |-> 100, outputTokens |-> 40]}

\* the mockData argument of structured(): absent, schema-valid, or not
MockDataCases == {Null, [foo |-> "ok", n |-> 1], [bar |-> "nope"]}

\* path.join(".")
RECURSIVE JoinPath(_)
JoinPath(path) ==
  IF Len(path) = 0 THEN <<>>
  ELSE IF Len(path) = 1 THEN <<path[1]>>
  ELSE <<path[1], ".">> \o JoinPath(Tail(path))

\* issues.map(e => `${e.path.join(".")}: ${e.message}`).join(", ")
RECURSIVE JoinIssues(_)
JoinIssues(issues) ==
  IF Len(issues) = 0 THEN <<>>
  ELSE JoinPath(issues[1].path) \o <<": ", issues[1].message>>
         \o (IF Len(issues) > 1 THEN <<", ">> \o JoinIssues(Tail(issues)) ELSE <<>>)

\* new Error("Invalid API key. Check your ANTHROPIC_API_KEY.")
InvalidKeyError == [name |-> "Error",
                    message |-> <<"Invalid API key. Check your ANTHROPIC_API_KEY.">>]

\* new Error(`Schema validation failed after retries: ...`)
SchemaFailedError(issues) ==
  [name |-> "Error",
   message |-> <<"Schema validation failed after retries: ">> \o JoinIssues(issues)]

\* the error the try block raises on attempt k for the content of a response
ContentError(content, k) ==
  CASE content.kind = "notext" ->
         [name |-> "Error", message |-> <<"No text content in LLM response">>, at |-> k]
    [] content.kind = "malformed" ->
         [name |-> "SyntaxError", message |-> <<"Unexpected token">>, at |-> k]
    [] content.kind = "json" ->
         [name |-> "ZodError", issues |-> SchemaIssues(content.parsed), at |-> k]

\* the content passes JSON.parse and schema.parse
ContentOk(content) == content.kind = "json" /\ SchemaIssues(content.parsed) = <<>>

\* config.baseDelayMs ?? 1000
BASE_DELAY_MS == 1000

\* the jitter is Math.random() * 1000: below this many milliseconds
JITTER_MS == 1000

\* the values Math.random() * 1000 takes in the model: the ends of [0, 1000)
Jitters == {0, JITTER_MS - 1}

\* a backoff that grows linearly with the attempt
sleepWithJitter_Linear(baseMs, attempt, jitter) == baseMs * attempt + jitter

\* the delay of sleepWithJitter(baseMs, attempt) when Math.random() * 1000 = jitter
sleepWithJitter(baseMs, attempt, jitter) == baseMs * 2^attempt + jitter

\* a fresh instance: new LLMClient({ maxRetries })
NewClient(maxRetries, mockMode) ==
  [maxRetries |-> maxRetries, mockMode |-> mockMode, usageLog |-> <<>>,
   baseDelayMs |-> BASE_DELAY_MS]

\* no structured() call has been made on the instance yet, and its summary has
\* not been read
NoCall == [pc |-> "idle", attempt |-> 0, lastError |-> Null, outcome |-> Null,
           failures |-> {}, trace |-> <<>>, summary |-> Null, delayMs |-> 0]

ClientInit ==
  /\ \E r \in 0..MaxRetriesBound, mock \in BOOLEAN :
       llm = [i \in Instances |->
                IF i = "A" THEN NewClient(r, mock)
                           ELSE NewClient(CALLER_MAX_RETRIES, FALSE)]
  /\ invocation = [i \in Instances |-> NoCall]
  /\ PipelineIdle
  /\ ValidatorIdle

\* what happened on the instance so far, this event included
Traced(inv, event) == [inv EXCEPT !.trace = Append(@, event)]

\* the remote call of attempt k is issued; an offline client has no remote side
CallIssued(client, inv, k) ==
  IF client.mockMode THEN [inv EXCEPT !.pc = "remote", !.attempt = k]
  ELSE Traced([inv EXCEPT !.pc = "remote", !.attempt = k],
              [event |-> "call", attempt |-> k])

\* the loop body starts for attempt k: the backoff sleep when k > 0
BeginAttempt(client, inv, k) ==
  IF k > 0
    THEN Traced([inv EXCEPT !.pc = "sleep", !.attempt = k],
                [event |-> "sleep", attempt |-> k])
    ELSE CallIssued(client, inv, k)

\* structured() returns or throws
Settled(inv, at, outcome) == [inv EXCEPT !.pc = at, !.outcome = outcome]

\* authentication failures retried like any other error
IsAuthError_Retried(error) == FALSE

\* error?.status === 401
IsAuthError(error) == "status" \in DOMAIN error /\ error.status = 401

\* the schema error made fatal one attempt later
IsFatalSchemaError_Late(error, attempt) ==
  error.name = "ZodError" /\ attempt >= SCHEMA_FATAL_ATTEMPT + 1

\* error instanceof z.ZodError && attempt >= 2
IsFatalSchemaError(error, attempt) ==
  error.name = "ZodError" /\ attempt >= SCHEMA_FATAL_ATTEMPT

\* the loop test with < in place of <=
LoopContinues_Strict(attempt, maxRetries) == attempt + 1 < maxRetries

\* attempt++; attempt <= this.maxRetries
LoopContinues(attempt, maxRetries) == attempt + 1 <= maxRetries

\* the catch block of the attempt, then the loop's next iteration or its exit
Caught(client, inv, error) ==
  LET seen == [inv EXCEPT !.lastError = error, !.failures = @ \cup {error.name}]
  IN  IF IsAuthError(error) THEN Settled(seen, "rejected", InvalidKeyError)
      ELSE IF IsFatalSchemaError(error, inv.attempt)
        THEN Settled(seen, "rejected", SchemaFailedError(error.issues))
      ELSE IF LoopContinues(inv.attempt, client.maxRetries)
        THEN BeginAttempt(client, seen, inv.attempt + 1)
      ELSE Settled(seen, "rejected", error)

\* the usage pushed only when the content is accepted
PushUsage_OnSuccess(l, i, usage, content) ==
  IF ContentOk(content) THEN [l EXCEPT ![i].usageLog = Append(@, usage)] ELSE l

\* one log shared by all instances
PushUsage_Shared(l, i, usage, content) ==
  [j \in DOMAIN l |-> [l[j] EXCEPT !.usageLog = Append(@, usage)]]

\* this.usageLog.push(usage), before the content of the response is looked at
PushUsage(l, i, usage, content) == [l EXCEPT ![i].usageLog = Append(@, usage)]

\* the summary of the instance has been read
Summarised(inv) == inv.summary # Null

\* structured(prompt, schema, systemPrompt, mockData) is called on instance i
StartCall(i) ==
  /\ invocation[i].pc = "idle"
  /\ ~Summarised(invocation[i])
  /\ \E mockData \in (IF llm[i].mockMode THEN MockDataCases ELSE {Null}) :
       invocation' = [invocation EXCEPT ![i] =
         IF llm[i].mockMode /\ mockData # Null
           THEN IF SchemaIssues(mockData) = <<>>
                  THEN Settled(@, "resolved",
                               [data |-> SchemaParse(mockData),
                                usage |-> [inputTokens |-> 0, outputTokens |-> 0],
                                mock |-> TRUE])
                  ELSE Settled(@, "rejected",
                               [name |-> "ZodError", issues |-> SchemaIssues(mockData)])
           ELSE BeginAttempt(llm[i], @, 0)]
  /\ UNCHANGED <<llm, pipelineVars, validatorVars>>

\* Math.random() is drawn only by a call that begins a backoff sleep
JittersFor(inv) == IF inv.pc = "sleep" THEN Jitters ELSE {0}

\* the call that begins a backoff sleep sets its timer: setTimeout(resolve, delay)
Armed(client, inv, jitter) ==
  IF inv.pc = "sleep"
    THEN [inv EXCEPT !.delayMs = sleepWithJitter(client.baseDelayMs, inv.attempt, jitter)]
    ELSE inv

\* await sleepWithJitter(...) completes: the remote call of the attempt
SleepEnds(i) ==
  /\ invocation[i].pc = "sleep"
  /\ invocation' = [invocation EXCEPT ![i] =
       CallIssued(llm[i], [@ EXCEPT !.delayMs = 0], @.attempt)]
  /\ UNCHANGED <<llm, pipelineVars, validatorVars>>

\* messages.create throws; on an offline client this.client is null
RemoteThrows(i) ==
  /\ invocation[i].pc = "remote"
  /\ \E e \in (IF llm[i].mockMode THEN {[name |-> "TypeError", status |-> 0]}
                                   ELSE RemoteErrors) :
       LET k == invocation[i].attempt
           error == [name |-> e.name, status |-> e.status, at |-> k]
           caught == Caught(llm[i],
                            Traced(invocation[i], [event |-> "threw", attempt |-> k]),
                            error)
       IN  \E jitter \in JittersFor(caught) :
             invocation' = [invocation EXCEPT ![i] = Armed(llm[i], caught, jitter)]
  /\ UNCHANGED <<llm, pipelineVars, validatorVars>>

\* messages.create returns a response: its usage is logged, its content checked
RemoteResponds(i) ==
  /\ invocation[i].pc = "remote"
  /\ ~llm[i].mockMode
  /\ \E content \in ResponseContents :
       LET k == invocation[i].attempt
           inv == Traced(invocation[i],
                         IF ContentOk(content)
                           THEN [event |-> "response", attempt |-> k,
                                 parsed |-> content.parsed]
                           ELSE [event |-> "response", attempt |-> k])
           after == IF ContentOk(content)
                      THEN Settled(inv, "resolved",
                                   [data |-> SchemaParse(content.parsed),
                                    usage |-> UsageOf(i), mock |-> FALSE])
                      ELSE Caught(llm[i], inv, ContentError(content, k))
       IN  /\ llm' = PushUsage(llm, i, UsageOf(i), content)
           /\ \E jitter \in JittersFor(after) :
                invocation' = [invocation EXCEPT ![i] = Armed(llm[i], after, jitter)]
  /\ UNCHANGED <<pipelineVars, validatorVars>>

\* (client as any).usageLog.push(usage) on an offline client, before it is used
PushDirect(i) ==
  /\ invocation[i].pc = "idle"
  /\ ~Summarised(invocation[i])
  /\ llm[i].mockMode
  /\ Len(llm[i].usageLog) < MaxDirectPushes
  /\ \E usage \in DirectUsages :
       llm' = [llm EXCEPT ![i].usageLog = Append(@, usage)]
  /\ invocation' = [invocation EXCEPT ![i] = Traced(@, [event |-> "push"])]
  /\ UNCHANGED <<pipelineVars, validatorVars>>

RECURSIVE SumLog(_, _)

\* a reduction that adds one per entry instead of the entry's tokens
SumLog_CountsEntries(log, field) ==
  IF log = <<>> THEN 0 ELSE 1 + SumLog(Tail(log), field)

\* usageLog.reduce((acc, entry) => acc + entry.<field>, 0)
SumLog(log, field) ==
  IF log = <<>> THEN 0 ELSE log[1][field] + SumLog(Tail(log), field)

\* pricing per million tokens
INPUT_COST_PER_M == 3
OUTPUT_COST_PER_M == 15

\* getUsageSummary() of a client; estimatedCost in millionths of a dollar:
\* (in / 1_000_000) * inputCostPerM + (out / 1_000_000) * outputCostPerM
getUsageSummary(client) ==
  LET totalIn == SumLog(client.usageLog, "inputTokens")
      totalOut == SumLog(client.usageLog, "outputTokens")
  IN  [totalInputTokens  |-> totalIn,
       totalOutputTokens |-> totalOut,
       totalCalls        |-> Len(client.usageLog),
       estimatedCost     |-> totalIn * INPUT_COST_PER_M + totalOut * OUTPUT_COST_PER_M]

\* Array.prototype.reduce does not change the array it runs over
AfterReduce(log) == log

\* const tokenUsage = llm.getUsageSummary(), read once the instance's use is over
Summarise(i) ==
  /\ invocation[i].pc \in {"idle", "resolved", "rejected"}
  /\ ~Summarised(invocation[i])
  /\ invocation' = [invocation EXCEPT ![i].summary = getUsageSummary(llm[i])]
  /\ llm' = [llm EXCEPT ![i].usageLog = AfterReduce(@)]
  /\ UNCHANGED <<pipelineVars, validatorVars>>

ClientNext ==
  \/ \E i \in Instances : StartCall(i)
  \/ \E i \in Instances : SleepEnds(i)
  \/ \E i \in Instances : RemoteThrows(i)
  \/ \E i \in Instances : RemoteResponds(i)
  \/ \E i \in Instances : PushDirect(i)
  \/ \E i \in Instances : Summarise(i)

ClientSpec == ClientInit /\ [][ClientNext]_vars

----------------------------------------------------------------------------
(* A live run: the node handlers' model calls on the run's LLMClient *)

\* the instance handed to runGraph
LiveClient == "A"

\* a handler starts a further model call only while the log is shorter than this
MaxLiveLog == 2

\* a live client (not in mock mode) and a fresh context; the parsers find
\* nothing in the cache
LiveInit ==
  /\ \E r \in 0..MaxRetriesBound :
       llm = [i \in Instances |->
                NewClient(IF i = LiveClient THEN r ELSE CALLER_MAX_RETRIES, FALSE)]
  /\ invocation = [i \in Instances |-> NoCall]
  /\ PipelineIdle
  /\ ValidatorIdle

\* a handler's tool calls llm.structured(...)
HandlerCalls ==
  /\ Len(llm[LiveClient].usageLog) < MaxLiveLog
  /\ StartCall(LiveClient)

\* the awaited tool call fulfils with the result of structured():
\* addTokenUsage(ctx, result.usage.inputTokens, result.usage.outputTokens)
HandlerAwaitReturns ==
  /\ invocation[LiveClient].pc = "resolved"
  /\ ctx' = addTokenUsage(ctx, invocation[LiveClient].outcome.usage)
  /\ invocation' = [invocation EXCEPT ![LiveClient] = NoCall]
  /\ UNCHANGED <<validatorVars, llm, graph, onStateChange, cur, pc, rejection, executed, notified,
                 thrown, validationLog, tasks, calls, now>>

LiveNext ==
  \/ HandlerCalls
  \/ SleepEnds(LiveClient)
  \/ RemoteThrows(LiveClient)
  \/ RemoteResponds(LiveClient)
  \/ HandlerAwaitReturns

LiveSpec == LiveInit /\ [][LiveNext]_vars

----------------------------------------------------------------------------
(* Claims *)

TerminalStates == {"DONE", "ERROR"}

\* runGraph rejected with the error of the onStateChange callback
CallbackThrew == pc = "rejected" /\ rejection = CallbackError

\* C1: every run of runGraph over the default graph, started at PARSE_JD on a
\* fresh context, in which every model call eventually returns or raises (and
\* the progress callback, when one is passed, returns from every call),
\* eventually reaches a terminal state: the loop has exited and
\* ctx.currentState is DONE or ERROR.
C1_RunTerminates ==
  (IsDefault /\ []~CallbackThrew) =>
    <>(pc = "done" /\ ctx.currentState \in TerminalStates)

\* a run of the default graph that went through the retry edge and ended
C1_Witness ==
  /\ IsDefault
  /\ pc = "done"
  /\ ctx.currentState = "DONE"
  /\ Count("GENERATE_OUTPUTS", executed) = 2

\* C2: if the handler registered for state X throws an error with message m,
\* runGraph does not reject, no further handler is executed, the run ends with
\* ctx.currentState = ERROR and ctx.errors holds exactly the entry "X: m"
\* (the progress callback, when one is passed, returning from every call).
C2_HandlerThrowEndsInError ==
  (thrown # <<>> /\ ~CallbackThrew) =>
    /\ Len(thrown) = 1
    /\ pc \in {"loop", "done"}
    /\ rejection = NoError
    /\ cur = "ERROR"
    /\ Last(executed) = thrown[1].state
    /\ ctx.errors = << <<thrown[1].state, ": ", thrown[1].msg>> >>
    /\ pc = "done" => ctx.currentState = "ERROR"

\* a run of a hand-built graph whose second handler threw "boom" has ended
C2_Witness ==
  /\ pc = "done"
  /\ Len(executed) = 2
  /\ thrown = <<[state |-> executed[2], msg |-> "boom"]>>

\* C3: whenever the runner's current state is non-terminal and has no
\* registered handler (the start state, or a state a handler returned), runGraph
\* rejects with "No handler registered for state: <STATE>" before any side
\* effect for that state: no history entry is appended for it, onStateChange is
\* not called for it, ctx.currentState and ctx.errors are unchanged, and for a
\* missing start-state handler the context is not mutated at all.
C3_MissingHandlerFailsFast ==
  /\ [][(pc = "loop" /\ cur \notin graph.terminalStates /\ graph.nodes[cur] = NoHandler) =>
          /\ pc' = "rejected"
          /\ rejection' = <<"No handler registered for state: ", cur>>
          /\ ctx' = ctx
          /\ notified' = notified
          /\ executed' = executed]_vars
  /\ []((pc = "loop" /\ cur \notin graph.terminalStates /\ graph.nodes[cur] = NoHandler) =>
          /\ Last(ctx.stateHistory).state # cur
          /\ ctx.currentState # cur)
  /\ []((pc = "rejected" /\ ~CallbackThrew) =>
          /\ rejection = <<"No handler registered for state: ", cur>>
          /\ graph.nodes[cur] = NoHandler
          /\ Last(ctx.stateHistory).state # cur
          /\ ctx.currentState # cur
          /\ cur \notin Range(notified)
          /\ executed = <<>> => ctx = createPipelineContext(ctx.jdText, ctx.resumeText))
  /\ [](pc \in {"invoke", "await", "join"} => graph.nodes[cur] # NoHandler)

\* runGraph rejected for a state that a handler returned
C3_Witness ==
  /\ pc = "rejected"
  /\ Len(executed) = 2
  /\ rejection = <<"No handler registered for state: ", "ANALYZE_FIT">>

\* a graph whose handlers all return a fixed next state and lead from state s
\* to a terminal state without visiting a state twice
RECURSIVE IsLinearChain(_, _, _)
IsLinearChain(g, s, seen) ==
  \/ s \in g.terminalStates
  \/ /\ s \notin seen
     /\ g.nodes[s].kind = "ret"
     /\ IsLinearChain(g, g.nodes[s].next, seen \cup {s})

\* the declared order S1, ..., Sn, terminal of a linear chain starting at s
RECURSIVE DeclaredOrder(_, _)
DeclaredOrder(g, s) ==
  IF s \in g.terminalStates THEN <<s>>
  ELSE <<s>> \o DeclaredOrder(g, g.nodes[s].next)

\* C4: for every linear handler chain S1 -> ... -> Sn -> terminal (no retry
\* edge) run on a fresh context, handlers execute exactly once each in the
\* declared order, and at the end stateHistory is [INTAKE, S1, ..., Sn, terminal]:
\* 1 (initial entry) plus one entry per visited state, the terminal one included.
C4_LinearChainOrder ==
  (pc = "done" /\ IsLinearChain(graph, "PARSE_JD", {})) =>
    LET order == DeclaredOrder(graph, "PARSE_JD")
    IN  /\ executed = SubSeq(order, 1, Len(order) - 1)
        /\ StatesOf(ctx.stateHistory) = <<"INTAKE">> \o order
        /\ Len(ctx.stateHistory) = 1 + Len(executed) + 1

\* a chain of three handlers has run to its terminal state
C4_Witness ==
  /\ pc = "done"
  /\ IsLinearChain(graph, "PARSE_JD", {})
  /\ Len(executed) = 3

\* C5: onStateChange is invoked exactly once per visited state, in visitation
\* order and before that state's handler starts, and exactly once more for the
\* terminal state after the loop exits; a state visited twice through the retry
\* edge is notified twice.
C5_NotifiedOncePerVisit ==
  onStateChange = "given" =>
    /\ notified = Tail(StatesOf(ctx.stateHistory))
    /\ IsPrefix(executed, notified)
    /\ pc = "invoke" => Len(notified) = Len(executed) + 1
    /\ pc \in {"await", "join"} => notified = executed
    /\ pc = "done" => /\ notified = executed \o <<cur>>
                      /\ cur \in graph.terminalStates

\* a run in which GENERATE_OUTPUTS was visited, and notified, twice
C5_Witness ==
  /\ onStateChange = "given"
  /\ pc = "done"
  /\ Count("GENERATE_OUTPUTS", executed) = 2
  /\ Count("GENERATE_OUTPUTS", notified) = 2
  /\ Last(notified) = "DONE"

\* C6: in the GENERATE_OUTPUTS/VALIDATE cycle, if validation fails on the first
\* attempt and passes on the second, the run executes GENERATE_OUTPUTS exactly
\* 2 times and VALIDATE exactly 2 times and ends in DONE (the progress callback,
\* when one is passed, returning from every call).
C6_FailThenPass ==
  (/\ IsDefault
   /\ ~CallbackThrew
   /\ Len(validationLog) >= 2
   /\ ~validationLog[1].passed
   /\ validationLog[2].passed) =>
    /\ Len(validationLog) = 2
    /\ Count("GENERATE_OUTPUTS", executed) = 2
    /\ Count("VALIDATE", executed) = 2
    /\ pc \in {"loop", "done"}
    /\ cur = "DONE"
    /\ thrown = <<>>
    /\ pc = "done" => ctx.currentState = "DONE"

\* a run whose first validation failed and whose second passed has ended
C6_Witness ==
  /\ IsDefault
  /\ pc = "done"
  /\ Len(validationLog) = 2
  /\ ~validationLog[1].passed
  /\ validationLog[2].passed

\* C7: in every run of the default graph ctx.validationAttempts starts at 0,
\* grows by exactly 1 each time GENERATE_OUTPUTS executes, never decreases or
\* resets, and never exceeds MAX_VALIDATION_ATTEMPTS = 2; hence GENERATE_OUTPUTS
\* and VALIDATE are each executed at most twice per run.
C7_AttemptsBounded ==
  /\ [](IsDefault =>
          /\ ctx.validationAttempts = Count("GENERATE_OUTPUTS", executed)
          /\ ctx.validationAttempts \in 0..2
          /\ Count("VALIDATE", executed) <= 2
          /\ executed = <<>> => ctx.validationAttempts = 0)
  /\ [][IsDefault =>
          IF executed' # executed /\ Last(executed') = "GENERATE_OUTPUTS"
            THEN ctx'.validationAttempts = ctx.validationAttempts + 1
            ELSE ctx'.validationAttempts = ctx.validationAttempts]_vars

\* a run of the default graph that used both attempts has ended
C7_Witness ==
  /\ IsDefault
  /\ pc = "done"
  /\ ctx.validationAttempts = 2
  /\ Count("VALIDATE", executed) = 2

\* C8: best-effort completion: if validation fails on every attempt (VALIDATE
\* has run for both attempts and failed both times), the run still ends in DONE,
\* never ERROR, after exactly 2 generation attempts, with ctx.validation stored,
\* validation.passed = false, a non-empty issues list, and ctx.errors empty
\* (the progress callback, when one is passed, returning from every call).
C8_BestEffortCompletion ==
  (/\ IsDefault
   /\ ~CallbackThrew
   /\ Len(validationLog) = 2
   /\ \A i \in 1..2 : ~validationLog[i].passed) =>
    /\ pc \in {"loop", "done"}
    /\ cur = "DONE"
    /\ pc = "done" => ctx.currentState = "DONE"
    /\ ctx.validationAttempts = 2
    /\ Count("GENERATE_OUTPUTS", executed) = 2
    /\ ctx.validation # Null
    /\ ctx.validation = validationLog[2]
    /\ ~ctx.validation.passed
    /\ ctx.validation.issues # <<>>
    /\ ctx.errors = <<>>

\* a run whose two validations both failed has ended
C8_Witness ==
  /\ IsDefault
  /\ pc = "done"
  /\ Len(validationLog) = 2
  /\ ~validationLog[2].passed
  /\ ctx.currentState = "DONE"

\* whether ValidationResult v marks artifact a valid
MarkedValid(v, a) ==
  \/ a = "coverLetter" /\ v.coverLetterValid
  \/ a = "tailoredBullets" /\ v.bulletsValid
  \/ a = "interviewPrep" /\ v.interviewPrepValid

\* C9: selective regeneration: in GENERATE_OUTPUTS a generation sub-task for an
\* artifact is started if and only if ctx.validation is null or the prior
\* validation marked that artifact invalid; on a retry every artifact previously
\* marked valid keeps exactly the value it had before the retry, and no model
\* call is made for it.
C9_SelectiveRegeneration ==
  [][/\ (IsDefault /\ pc = "invoke" /\ cur = "GENERATE_OUTPUTS") =>
          \A a \in Artifacts :
            LET started == tasks'[a].status = "pending"
            IN  /\ started <=> (ctx.validation = Null \/ ~MarkedValid(ctx.validation, a))
                /\ calls'[a] = calls[a] + (IF started THEN 1 ELSE 0)
     /\ \A a \in Artifacts :
          (ctx.validation # Null /\ MarkedValid(ctx.validation, a)) =>
            /\ ctx'.outputs[a] = ctx.outputs[a]
            /\ calls'[a] = calls[a]
            /\ tasks'[a].status # "pending"]_vars

\* a retry that regenerated the bullets and kept the cover letter has ended
C9_Witness ==
  /\ IsDefault
  /\ pc = "done"
  /\ ctx.validationAttempts = 2
  /\ validationLog[1].coverLetterValid
  /\ calls["coverLetter"] = 1
  /\ calls["tailoredBullets"] = 2

\* C10: stability of passing sections: per-artifact validity is monotone across
\* the retry: an artifact that the first VALIDATE marked valid is also marked
\* valid by the second VALIDATE of the same run.
C10_ValidityMonotone ==
  IsDefault =>
    \A i \in 1..Len(validationLog), j \in 1..Len(validationLog), a \in Artifacts :
      (i < j /\ MarkedValid(validationLog[i], a)) => MarkedValid(validationLog[j], a)

\* the second VALIDATE has run after a first one that marked only some
\* artifacts valid
C10_Witness ==
  /\ IsDefault
  /\ Len(validationLog) = 2
  /\ validationLog[1].bulletsValid
  /\ ~validationLog[1].coverLetterValid
  /\ validationLog[2].bulletsValid

\* some generation sub-task of the current attempt has rejected
SomeTaskRejected == \E a \in Artifacts : tasks[a].status = "rejected"

\* C11: joint failure of the fan-out: if any one scheduled generation sub-task
\* rejects, handleGenerateOutputs fails as a whole whatever the other sub-tasks
\* do (nothing of the attempt is stored), VALIDATE is not executed for that
\* attempt, and the run ends in ERROR with the single entry
\* "GENERATE_OUTPUTS: <message>" in ctx.errors (the progress callback, when one
\* is passed, returning from every call).
C11_JointFailure ==
  /\ []((IsDefault /\ SomeTaskRejected /\ ~CallbackThrew) =>
          /\ Len(thrown) = 1
          /\ thrown[1].state = "GENERATE_OUTPUTS"
          /\ \E a \in Artifacts : /\ tasks[a].status = "rejected"
                                  /\ thrown[1].msg = tasks[a].error
          /\ ctx.errors = << <<"GENERATE_OUTPUTS", ": ", thrown[1].msg>> >>
          /\ Last(executed) = "GENERATE_OUTPUTS"
          /\ Count("VALIDATE", executed) = Count("GENERATE_OUTPUTS", executed) - 1
          /\ pc \in {"loop", "done"}
          /\ cur = "ERROR"
          /\ pc = "done" => ctx.currentState = "ERROR")
  /\ [][(IsDefault /\ SomeTaskRejected') =>
          /\ ctx'.outputs = ctx.outputs
          /\ ctx'.tokenUsage = ctx.tokenUsage
          /\ ctx'.validation = ctx.validation]_vars

\* a retry in which one sub-task rejected has ended in ERROR
C11_Witness ==
  /\ IsDefault
  /\ pc = "done"
  /\ ctx.validationAttempts = 2
  /\ SomeTaskRejected
  /\ ctx.currentState = "ERROR"

\* passed is the conjunction of the three per-artifact flags of v
PassedIsConjunction(v) ==
  v.passed <=> (v.coverLetterValid /\ v.bulletsValid /\ v.interviewPrepValid)

\* C12: every ValidationResult produced by validateOutputs, and therefore every
\* value ever stored in ctx.validation, satisfies
\* passed = coverLetterValid AND bulletsValid AND interviewPrepValid.
C12_PassedIsConjunction ==
  /\ testResult # Null => PassedIsConjunction(testResult)
  /\ testBefore # Null => PassedIsConjunction(testBefore.result)
  /\ ctx.validation # Null => PassedIsConjunction(ctx.validation)
  /\ \A i \in 1..Len(validationLog) : PassedIsConjunction(validationLog[i])

\* a result whose only invalid artifact is the interview prep
C12_Witness ==
  /\ testResult # Null
  /\ testResult.coverLetterValid
  /\ testResult.bulletsValid
  /\ ~testResult.interviewPrepValid
  /\ ~testResult.passed

\* artifact a, with value text, violates a predicate of its section: it is
\* missing, or a cover letter of a wrong length, or a list of too few bullets,
\* or an interview prep without all three sections
Offends(a, text) ==
  \/ text = Null
  \/ text = EmptyText
  \/ a = "coverLetter" /\ (text.words < 150 \/ text.words > 450)
  \/ a = "tailoredBullets" /\ text.bullets < 4
  \/ a = "interviewPrep" /\ ~(SectionHeaders \subseteq text.sections)

\* C13: validateOutputs marks only the offending artifact invalid: each
\* artifact's flag depends only on that artifact and the parsed JD, so making
\* one artifact violate a predicate (a too-short cover letter, say) flips only
\* that artifact's flag, leaves the other two flags as they were, and makes
\* passed false.
C13_OnlyOffenderInvalid ==
  (testBefore # Null /\ testResult # Null) =>
    \A a \in Artifacts :
      /\ testBefore.outputs[a] = testOutputs[a] =>
            MarkedValid(testResult, a) = MarkedValid(testBefore.result, a)
      /\ (testBefore.outputs[a] # testOutputs[a] /\ Offends(a, testOutputs[a])) =>
            /\ ~MarkedValid(testResult, a)
            /\ ~testResult.passed
            /\ \A b \in Artifacts \ {a} :
                 MarkedValid(testResult, b) = MarkedValid(testBefore.result, b)

\* valid outputs whose cover letter was then made too short: only its flag flipped
C13_Witness ==
  /\ testBefore # Null
  /\ testBefore.result.passed
  /\ testOutputs.coverLetter \notin {Null, EmptyText}
  /\ testOutputs.coverLetter.words < 150
  /\ ~testResult.coverLetterValid
  /\ testResult.bulletsValid
  /\ testResult.interviewPrepValid
  /\ ~testResult.passed

\* the issues of v that start with the given text
IssuesStarting(v, head) == {i \in 1..Len(v.issues) : v.issues[i][1] = head}

Events(inv, kind) == SelectSeq(inv.trace, LAMBDA e : e.event = kind)

\* the remote calls, backoff sleeps and responses of a structured() call so far
RemoteCalls(inv) == Len(Events(inv, "call"))
Sleeps(inv) == Len(Events(inv, "sleep"))
Responses(inv) == Len(Events(inv, "response"))

\* the attempts of a structured() call that have ended, in order
Attempts(inv) == SelectSeq(inv.trace, LAMBDA e : e.event \in {"response", "threw"})

\* C15: an authentication failure (status 401) on any attempt of structured() is
\* fatal and not retried: structured() rejects at once with "Invalid API key.
\* Check your ANTHROPIC_API_KEY.", makes no further remote call and no further
\* backoff sleep, whatever maxRetries is.
C15_AuthFailureIsFatal ==
  \A i \in Instances :
    LET inv == invocation[i]
    IN  "AuthenticationError" \in inv.failures =>
          /\ inv.pc = "rejected"
          /\ inv.outcome.message = <<"Invalid API key. Check your ANTHROPIC_API_KEY.">>
          /\ Last(inv.trace).event = "threw"
          /\ RemoteCalls(inv) = Last(inv.trace).attempt + 1
          /\ Sleeps(inv) = Last(inv.trace).attempt
          /\ inv.lastError.name = "AuthenticationError"
          /\ inv.lastError.at = Last(inv.trace).attempt

\* the second attempt failed with a 401 on a client that had retries left
C15_Witness ==
  /\ llm["A"].maxRetries = 3
  /\ invocation["A"].pc = "rejected"
  /\ Len(Attempts(invocation["A"])) = 2
  /\ invocation["A"].lastError.name = "AuthenticationError"

\* position j of a message holds "<field>: <text>"
NamesIssue(message, j, field, text) ==
  /\ j + 2 <= Len(message)
  /\ message[j] = field
  /\ message[j + 1] = ": "
  /\ message[j + 2] = text

\* C16: when every response is well-formed JSON that violates the schema,
\* structured() retries and then becomes fatal at the attempt with index 2 (on
\* a client whose maxRetries lets that attempt happen, maxRetries >= 2): it
\* makes exactly 3 remote calls even when maxRetries is larger than 2 and
\* rejects with a message that starts "Schema validation failed after retries"
\* and enumerates every failing field path with its message.
C16_SchemaFailureFatalAtThird ==
  \A i \in Instances :
    LET inv == invocation[i]
    IN  (/\ llm[i].maxRetries >= 2
         /\ ~llm[i].mockMode
         /\ inv.failures = {"ZodError"}
         /\ inv.pc # "resolved") =>
          /\ RemoteCalls(inv) <= 3
          /\ Responses(inv) = Len(Attempts(inv))
          /\ inv.pc \in {"sleep", "remote", "rejected"}
          /\ inv.pc = "rejected" =>
                /\ RemoteCalls(inv) = 3
                /\ Sleeps(inv) = 2
                /\ inv.attempt = 2
                /\ inv.outcome.name = "Error"
                /\ inv.outcome.message[1] = "Schema validation failed after retries: "
                /\ inv.lastError.issues # <<>>
                /\ \A k \in 1..Len(inv.lastError.issues) :
                     \E j \in 2..Len(inv.outcome.message) :
                       NamesIssue(inv.outcome.message, j, inv.lastError.issues[k].path[1],
                                  inv.lastError.issues[k].message)
          /\ Len(Attempts(inv)) = 3 => inv.pc = "rejected"

\* three schema-violating responses on a client configured with maxRetries = 3
C16_Witness ==
  /\ llm["A"].maxRetries = 3
  /\ invocation["A"].failures = {"ZodError"}
  /\ invocation["A"].pc = "rejected"
  /\ RemoteCalls(invocation["A"]) = 3
  /\ Len(invocation["A"].outcome.message) > 5

\* C17: if attempts 0..k-1 of structured() fail with retryable errors and
\* attempt k <= maxRetries returns well-formed, schema-valid JSON, structured()
\* resolves with that validated data after exactly k+1 remote calls (in the
\* test k = 1: two calls, totalCalls = 2).
C17_SucceedsAfterRetries ==
  /\ [](\A i \in Instances :
          LET inv == invocation[i]
          IN  (inv.pc = "resolved" /\ ~llm[i].mockMode) =>
                LET k == inv.attempt
                    parsed == Last(inv.trace).parsed
                IN  /\ k <= llm[i].maxRetries
                    /\ Len(Attempts(inv)) = k + 1
                    /\ RemoteCalls(inv) = k + 1
                    /\ Sleeps(inv) = k
                    /\ Last(inv.trace).event = "response"
                    /\ DOMAIN inv.outcome.data = Range(SchemaFields)
                    /\ \A f \in Range(SchemaFields) : inv.outcome.data[f] = parsed[f]
                    /\ inv.outcome.usage = Last(llm[i].usageLog))
  /\ [][\A i \in Instances :
          (/\ invocation[i].pc = "remote"
           /\ Len(invocation'[i].trace) > Len(invocation[i].trace)
           /\ "parsed" \in DOMAIN Last(invocation'[i].trace)) =>
            /\ invocation'[i].pc = "resolved"
            /\ RemoteCalls(invocation'[i]) = invocation[i].attempt + 1]_vars

\* a malformed first response, then a valid second one: two calls, totalCalls = 2
C17_Witness ==
  /\ invocation["B"].pc = "resolved"
  /\ invocation["B"].failures = {"SyntaxError"}
  /\ RemoteCalls(invocation["B"]) = 2
  /\ getUsageSummary(llm["B"]).totalCalls = 2
  /\ "extra" \in DOMAIN Last(invocation["B"].trace).parsed

\* the names of the errors that are neither a 401 nor a schema-validation error
OtherErrors == {"Error", "SyntaxError", "APIConnectionError", "TypeError"}

\* C18: structured() never makes more than maxRetries + 1 remote-call attempts;
\* when every attempt fails with an error that is neither a 401 nor a
\* schema-validation error (network error, timeout, malformed text), it makes
\* exactly maxRetries + 1 attempts and then rejects with the error observed on
\* the last attempt.
C18_AttemptsBoundedByMaxRetries ==
  \A i \in Instances :
    LET inv == invocation[i]
    IN  /\ RemoteCalls(inv) <= llm[i].maxRetries + 1
        /\ Len(Attempts(inv)) <= llm[i].maxRetries + 1
        /\ Sleeps(inv) <= llm[i].maxRetries
        /\ (inv.failures # {} /\ inv.failures \subseteq OtherErrors
              /\ inv.pc # "resolved") =>
              /\ inv.pc \in {"sleep", "remote", "rejected"}
              /\ inv.pc = "rejected" =>
                    /\ Len(Attempts(inv)) = llm[i].maxRetries + 1
                    /\ ~llm[i].mockMode => RemoteCalls(inv) = llm[i].maxRetries + 1
                    /\ inv.outcome = inv.lastError
                    /\ inv.outcome.at = llm[i].maxRetries
                    /\ inv.outcome.name \in OtherErrors
              /\ Len(Attempts(inv)) = llm[i].maxRetries + 1 => inv.pc = "rejected"

\* four failed attempts on a client with maxRetries = 3, the last a network error
C18_Witness ==
  /\ llm["A"].maxRetries = 3
  /\ ~llm["A"].mockMode
  /\ invocation["A"].pc = "rejected"
  /\ invocation["A"].failures = {"SyntaxError", "APIConnectionError"}
  /\ RemoteCalls(invocation["A"]) = 4
  /\ invocation["A"].outcome.name = "APIConnectionError"

\* C19: usage accounting: during a live structured() call the instance's usage
\* log grows by exactly one entry for each attempt whose remote call returned a
\* response, also when the payload is then rejected by JSON parsing or schema
\* validation, and by none for attempts whose remote call threw; totalCalls
\* therefore equals the number of responses received.
C19_UsageLoggedPerResponse ==
  /\ [](\A i \in Instances :
          ~llm[i].mockMode =>
            /\ getUsageSummary(llm[i]).totalCalls = Responses(invocation[i])
            /\ llm[i].usageLog = [k \in 1..Responses(invocation[i]) |-> UsageOf(i)])
  /\ [][\A i \in Instances :
          (~llm[i].mockMode /\ invocation'[i] # invocation[i]) =>
            IF Responses(invocation'[i]) = Responses(invocation[i]) + 1
              THEN llm'[i].usageLog = Append(llm[i].usageLog, UsageOf(i))
              ELSE llm'[i].usageLog = llm[i].usageLog]_vars

\* a call that ended after a thrown remote call, a malformed response and a
\* schema-violating response: two entries for three attempts
C19_Witness ==
  /\ ~llm["A"].mockMode
  /\ invocation["A"].pc = "rejected"
  /\ invocation["A"].failures = {"APIConnectionError", "SyntaxError", "ZodError"}
  /\ Len(Attempts(invocation["A"])) = 3
  /\ Len(llm["A"].usageLog) = 2

\* C20: two independently constructed LLMClient instances never share usage:
\* any sequence of calls or log appends on instance A leaves
\* B.getUsageSummary() unchanged and the other way round, also when the two
\* instances are used by concurrently running pipelines.
C20_NoSharedUsage ==
  [][\A i \in Instances :
       invocation'[i].trace = invocation[i].trace =>
         getUsageSummary(llm'[i]) = getUsageSummary(llm[i])]_vars

\* both instances have logged responses while the call on the other was running
C20_Witness ==
  /\ invocation["A"].pc = "remote"
  /\ invocation["B"].pc = "sleep"
  /\ getUsageSummary(llm["A"]).totalInputTokens = 20
  /\ getUsageSummary(llm["B"]).totalInputTokens = 2

\* the sum of one field over the entries of a usage log
TokensLogged(log, field) ==
  LET upTo[k \in 0..Len(log)] == IF k = 0 THEN 0 ELSE upTo[k - 1] + log[k][field]
  IN  upTo[Len(log)]

\* C21: getUsageSummary() is a pure reduction of the instance's log: totalCalls
\* is the number of log entries, totalInputTokens and totalOutputTokens are the
\* sums over the log, the log itself is not modified, and a freshly constructed
\* instance reports all zeros, estimatedCost = 0 included.
C21_SummaryIsPureReduction ==
  [][\A i \in Instances :
       (invocation[i].summary = Null /\ invocation'[i].summary # Null) =>
         LET log == llm[i].usageLog
             summary == invocation'[i].summary
         IN  /\ summary.totalCalls = Len(log)
             /\ summary.totalInputTokens = TokensLogged(log, "inputTokens")
             /\ summary.totalOutputTokens = TokensLogged(log, "outputTokens")
             /\ llm' = llm
             /\ log = <<>> =>
                  summary = [totalInputTokens |-> 0, totalOutputTokens |-> 0,
                             totalCalls |-> 0, estimatedCost |-> 0]]_vars

\* the summary was read from an instance that logged two responses and from a
\* fresh instance
C21_Witness ==
  /\ Len(llm["A"].usageLog) = 2
  /\ invocation["A"].summary # Null
  /\ invocation["A"].summary.totalCalls = 2
  /\ invocation["A"].summary.totalInputTokens = 20
  /\ invocation["A"].summary.estimatedCost = 210
  /\ invocation["B"].pc = "idle"
  /\ invocation["B"].summary # Null
  /\ invocation["B"].summary.totalCalls = 0

\* C22: every structured() call made while the client is in offline (MOCK_LLM)
\* mode bypasses the remote call entirely: no remote call and no backoff sleep
\* happen, the fallback value is validated with the same schema check as the live
\* path, the result carries usage {inputTokens: 0, outputTokens: 0}, and the usage
\* log is left unchanged.
C22_OfflineBypassesRemote ==
  [][\A i \in Instances :
       (llm[i].mockMode /\ invocation'[i].pc # invocation[i].pc) =>
         LET inv == invocation'[i]
         IN  /\ inv.pc \in {"resolved", "rejected"}
             /\ RemoteCalls(inv) = 0
             /\ Sleeps(inv) = 0
             /\ inv.pc = "resolved" =>
                  /\ inv.outcome.usage = [inputTokens |-> 0, outputTokens |-> 0]
                  /\ \E d \in ParsedPayloads :
                       SchemaIssues(d) = <<>> /\ inv.outcome.data = SchemaParse(d)
             /\ inv.pc = "rejected" =>
                  inv.outcome.name = "ZodError" /\ inv.outcome.issues # <<>>
             /\ llm'[i] = llm[i]]_vars

\* the intermediate results of a run
ResultsOf(c) == <<c.parsedJD, c.parsedResume, c.fitAnalysis, c.outputs, c.validation>>

\* the states whose handlers completed before the failure in state X
CompletedBefore(X) ==
  CASE X = "PARSE_JD"         -> {}
    [] X = "PARSE_RESUME"     -> {"PARSE_JD"}
    [] X = "ANALYZE_FIT"      -> {"PARSE_JD", "PARSE_RESUME"}
    [] X = "GENERATE_OUTPUTS" -> {"PARSE_JD", "PARSE_RESUME", "ANALYZE_FIT"}

\* C23: runOrchestrator never rejects because a handler failed: it resolves with
\* result.success = true exactly when context.currentState = DONE, and after a
\* failure in state X the returned context still holds every intermediate result
\* written by the handlers that completed before X (parsedJD after a PARSE_RESUME
\* failure; the first attempt's outputs and validation after a failing retry).
C23_FailureKeepsPartialResults ==
  /\ [](IsDefault /\ runOrchestrator # Null =>
          LET result == runOrchestrator
          IN  /\ result.status = "rejected" => result.error = CallbackError
              /\ result.status = "resolved" =>
                    /\ result.success <=> result.context.currentState = "DONE"
                    /\ thrown # <<>> =>
                          LET X == thrown[1].state
                              c == result.context
                          IN  /\ ~result.success
                              /\ c.currentState = "ERROR"
                              /\ "PARSE_JD" \in CompletedBefore(X) => c.parsedJD \in ParsedJDs
                              /\ "PARSE_RESUME" \in CompletedBefore(X) =>
                                    c.parsedResume \in ParsedResumes
                              /\ "ANALYZE_FIT" \in CompletedBefore(X) =>
                                    c.fitAnalysis \in FitAnalyses
                              /\ (X = "GENERATE_OUTPUTS" /\ c.validationAttempts > 1) =>
                                    /\ c.validation = validationLog[1]
                                    /\ \A a \in Artifacts : c.outputs[a] # Null
                                    /\ validateOutputs(c.outputs, c.parsedJD) = c.validation)
  /\ [][IsDefault /\ thrown' # <<>> => ResultsOf(ctx') = ResultsOf(ctx)]_vars

\* a run whose retry of GENERATE_OUTPUTS failed has returned, unsuccessful, with
\* the outputs and the validation of the first attempt
C23_Witness ==
  /\ IsDefault
  /\ runOrchestrator # Null
  /\ runOrchestrator.status = "resolved"
  /\ ~runOrchestrator.success
  /\ thrown # <<>>
  /\ thrown[1].state = "GENERATE_OUTPUTS"
  /\ ctx.validationAttempts = 2
  /\ ctx.validation # Null
  /\ ctx.outputs.coverLetter # Null

\* the tokens of one kind that the fulfilled sub-task of artifact a used
TaskTokens(a, field) ==
  IF tasks[a].status = "fulfilled" THEN tasks[a].usage[field] ELSE 0

\* the tokens of one kind that the sub-tasks of the attempt used
AttemptTokens(field) ==
  TaskTokens("coverLetter", field) + TaskTokens("tailoredBullets", field)
    + TaskTokens("interviewPrep", field)

\* C24: within GENERATE_OUTPUTS the scheduled sub-tasks write disjoint context
\* fields, so for every completion order of sub-tasks that all succeed the
\* resulting ctx.outputs and ctx.tokenUsage are the same: each scheduled artifact
\* holds its own sub-task's result, the others are untouched, and tokenUsage grew
\* by the sum of the scheduled sub-tasks' usage, with no lost update.
C24_CompletionOrderIrrelevant ==
  [][/\ (pc = "join" /\ pc' = "join") => ctx' = ctx
     /\ (pc = "join" /\ pc' = "loop" /\ cur' = "VALIDATE") =>
          /\ \A a \in Artifacts :
               ctx'.outputs[a] = IF tasks[a].status = "fulfilled" THEN tasks[a].data
                                                                  ELSE ctx.outputs[a]
          /\ \A field \in {"inputTokens", "outputTokens"} :
               ctx'.tokenUsage[field] = ctx.tokenUsage[field] + AttemptTokens(field)
          /\ [ctx' EXCEPT !.outputs = ctx.outputs, !.tokenUsage = ctx.tokenUsage] = ctx]_vars

\* three sub-tasks have completed in the reverse of their declaration order, each
\* with usage, and are joined by the next step
C24_Witness ==
  /\ pc = "join"
  /\ ctx.validationAttempts = 1
  /\ \A a \in Artifacts :
       tasks[a].status = "fulfilled" /\ tasks[a].usage.inputTokens = 2
  /\ tasks["interviewPrep"].order = 0
  /\ tasks["tailoredBullets"].order = 1
  /\ tasks["coverLetter"].order = 2
  /\ ENABLED JoinAll

\* C25: for every configured maxRetries >= 0 (maxRetries < 2 included), a
\* structured() call whose every attempt returns schema-mismatching data ends
\* with the aggregated diagnostic "Schema validation failed after retries:
\* <field>: <message>, ..." listing every violated field, never with a raw
\* validation error.
C25_AggregatedForEveryMaxRetries ==
  \A i \in Instances :
    LET inv == invocation[i]
    IN  (/\ ~llm[i].mockMode
         /\ inv.failures = {"ZodError"}
         /\ inv.pc = "rejected") =>
          /\ inv.outcome.name = "Error"
          /\ inv.outcome.message[1] = "Schema validation failed after retries: "
          /\ \A k \in 1..Len(inv.lastError.issues) :
               \E j \in 2..Len(inv.outcome.message) :
                 NamesIssue(inv.outcome.message, j, inv.lastError.issues[k].path[1],
                            inv.lastError.issues[k].message)

\* C26: in every run of the default graph, each consecutive pair (S, T) of
\* stateHistory entries is a legal edge: INTAKE->PARSE_JD, PARSE_JD->PARSE_RESUME,
\* PARSE_RESUME->ANALYZE_FIT, ANALYZE_FIT->GENERATE_OUTPUTS,
\* GENERATE_OUTPUTS->VALIDATE, VALIDATE->GENERATE_OUTPUTS or DONE, or S->ERROR for
\* a non-terminal S other than INTAKE; no entry ever follows DONE or ERROR.
C26_HistoryFollowsLegalEdges ==
  IsDefault =>
    LET h == StatesOf(ctx.stateHistory)
    IN  \A k \in 1..(Len(h) - 1) : h[k + 1] \in STATE_TRANSITIONS[h[k]]

\* a run took the retry edge and then failed in GENERATE_OUTPUTS
C26_Witness ==
  /\ IsDefault
  /\ pc = "done"
  /\ StatesOf(ctx.stateHistory) =
       <<"INTAKE", "PARSE_JD", "PARSE_RESUME", "ANALYZE_FIT", "GENERATE_OUTPUTS",
         "VALIDATE", "GENERATE_OUTPUTS", "ERROR">>

\* the entry has a durationMs property
HasDuration(entry) == "durationMs" \in DOMAIN entry

\* C27: stateHistory is append-only, and an entry's durationMs is written only by
\* the next transition (while that entry is the last one) and is never changed
\* afterwards; entries older than the last are never touched by transitionTo, and
\* the final terminal entry has no duration.
C27_DurationsWrittenOnce ==
  /\ [](LET h == ctx.stateHistory
        IN  /\ \A k \in 1..Len(h) : HasDuration(h[k]) <=> k < Len(h)
            /\ pc = "done" => /\ ~HasDuration(Last(h))
                               /\ Last(h).state \in {"DONE", "ERROR"})
  /\ [][LET h == ctx.stateHistory
            n == Len(h)
        IN  ctx'.stateHistory # h =>
              /\ Len(ctx'.stateHistory) = n + 1
              /\ \A k \in 1..(n - 1) : ctx'.stateHistory[k] = h[k]
              /\ ctx'.stateHistory[n].state = h[n].state
              /\ ctx'.stateHistory[n].timestamp = h[n].timestamp
              /\ ctx'.stateHistory[n].durationMs = now' - h[n].timestamp
              /\ ctx'.stateHistory[n + 1] = [state |-> cur, timestamp |-> now']]_vars

\* a finished run in which time passed: an early entry kept the duration 0 it
\* got from the transition after it, a later one has duration 1, the terminal
\* entry has none
C27_Witness ==
  /\ pc = "done"
  /\ Len(ctx.stateHistory) >= 4
  /\ ctx.stateHistory[1].durationMs = 0
  /\ \E k \in 2..(Len(ctx.stateHistory) - 1) : ctx.stateHistory[k].durationMs = 1
  /\ ~HasDuration(Last(ctx.stateHistory))

\* the parsed and derived structures of the context, and the state of the
\* handler that populates each
Populates ==
  [parsedJD |-> "PARSE_JD", parsedResume |-> "PARSE_RESUME", fitAnalysis |-> "ANALYZE_FIT"]

\* C28: parsedJD, parsedResume and fitAnalysis are each written at most once per
\* run, only by PARSE_JD, PARSE_RESUME and ANALYZE_FIT respectively, and once
\* non-null never change again: the validation retry edge never re-enters those
\* states.
C28_ParsedWrittenOnce ==
  /\ [](IsDefault =>
          \A f \in DOMAIN Populates :
            /\ Count(Populates[f], executed) <= 1
            /\ Count(Populates[f], StatesOf(ctx.stateHistory)) <= 1
            /\ ctx[f] # Null => Populates[f] \in Range(executed))
  /\ [][IsDefault =>
          \A f \in DOMAIN Populates :
            ctx'[f] # ctx[f] =>
              /\ cur = Populates[f]
              /\ ctx[f] = Null
              /\ ctx'[f] # Null]_vars

\* a run that took the validation retry edge has finished with the three
\* structures populated, each of their handlers having run once
C28_Witness ==
  /\ IsDefault
  /\ pc = "done"
  /\ ctx.validationAttempts = 2
  /\ Count("GENERATE_OUTPUTS", executed) = 2
  /\ \A f \in DOMAIN Populates :
       ctx[f] # Null /\ Count(Populates[f], executed) = 1

\* the predicates of validateOutputs in the order of their checks: the section,
\* the artifact, the first words of the issue, and whether the outputs violate
\* the predicate for the parsed JD
Predicates(outputs, jd) ==
  LET cl == outputs.coverLetter
      bu == outputs.tailoredBullets
      ip == outputs.interviewPrep
      named == {i \in 1..Len(jd.techStack) : jd.techStack[i] \in bu.mentions}
  IN  << [section |-> 1, of |-> cl, head |-> "Cover letter too long: ",
          violated |-> ~Missing(cl) /\ cl.words > 450],
         [section |-> 1, of |-> cl, head |-> "Cover letter too short: ",
          violated |-> ~Missing(cl) /\ cl.words < 150],
         [section |-> 1, of |-> cl, head |-> "Cover letter doesn't mention the company name",
          violated |-> ~Missing(cl) /\ jd.company[1] \notin cl.mentions],
         [section |-> 1, of |-> cl,
          head |-> "Cover letter doesn't reference any required skills from the JD",
          violated |-> ~Missing(cl) /\ Range(jd.requiredSkills) \cap cl.mentions = {}],
         [section |-> 2, of |-> bu, head |-> "Too few resume bullets: ",
          violated |-> ~Missing(bu) /\ bu.bullets < 4],
         [section |-> 2, of |-> bu, head |-> "Resume bullets only reference ",
          violated |-> ~Missing(bu) /\ Cardinality(named) < 2],
         [section |-> 3, of |-> ip,
          head |-> "Interview prep missing one or more sections (Technical, Behavioral, Questions to Ask)",
          violated |-> ~Missing(ip) /\ ~(SectionHeaders \subseteq ip.sections)],
         [section |-> 3, of |-> ip,
          head |-> "Interview prep appears generic - doesn't mention the company",
          violated |-> ~Missing(ip) /\ jd.company[1] \notin ip.mentions],
         [section |-> 1, of |-> cl, head |-> "Cover letter is missing",
          violated |-> Missing(cl)],
         [section |-> 2, of |-> bu, head |-> "Resume bullets are missing",
          violated |-> Missing(bu)],
         [section |-> 3, of |-> ip, head |-> "Interview prep is missing",
          violated |-> Missing(ip)] >>

\* C29: for a present artifact, validateOutputs evaluates every predicate of that
\* artifact even after one has failed, and issues contains exactly one string per
\* violated predicate, ordered cover letter, then bullets, then interview prep; a
\* missing artifact contributes exactly one 'missing' issue.
C29_OneIssuePerViolation ==
  testResult # Null =>
    LET preds == Predicates(testOutputs, testJD)
        issues == testResult.issues
        SectionOf(i) == preds[CHOOSE k \in 1..Len(preds) : preds[k].head = issues[i][1]].section
    IN  /\ \A k \in 1..Len(preds) :
             Cardinality(IssuesStarting(testResult, preds[k].head))
               = IF preds[k].violated THEN 1 ELSE 0
        /\ Len(issues) = Cardinality({k \in 1..Len(preds) : preds[k].violated})
        /\ \A i \in 1..Len(issues) : \E k \in 1..Len(preds) : preds[k].head = issues[i][1]
        /\ \A i, j \in 1..Len(issues) : i < j => SectionOf(i) <= SectionOf(j)

\* a present cover letter that violates two predicates at once, with a missing
\* interview prep: three issues, in the order of the sections
C29_Witness ==
  /\ testResult # Null
  /\ ~Missing(testOutputs.coverLetter)
  /\ ~Missing(testOutputs.tailoredBullets)
  /\ testOutputs.interviewPrep = Null
  /\ Len(testResult.issues) = 3
  /\ testResult.issues[1][1] = "Cover letter too short: "
  /\ testResult.issues[2][1] = "Cover letter doesn't mention the company name"
  /\ testResult.issues[3] = <<"Interview prep is missing">>
  /\ testResult.bulletsValid

\* C30: the validator enforces a cover-letter maximum length of 400 words: a
\* cover letter with more than 400 words is marked invalid.
C30_MaxLengthIs400 ==
  (testResult # Null /\ ~Missing(testOutputs.coverLetter)) =>
    (testOutputs.coverLetter.words > 400 => ~testResult.coverLetterValid)

\* C31: a present bullets artifact is valid exactly when it has at least 4 lines
\* matching the bullet marker and at least 2 distinct tech-stack keywords of the
\* parsed JD occur in it; in particular a tech-stack list that repeats one
\* keyword does not make a text mentioning only that keyword pass.
C31_TwoDistinctKeywords ==
  (testResult # Null /\ ~Missing(testOutputs.tailoredBullets)) =>
    LET text == testOutputs.tailoredBullets
        distinct == Range(testJD.techStack) \cap text.mentions
    IN  testResult.bulletsValid <=> (text.bullets >= 4 /\ Cardinality(distinct) >= 2)

\* C32: backoff ordering in structured(): no sleep precedes the first attempt;
\* before the attempt with index k >= 1 it sleeps baseDelayMs * 2^k plus a jitter
\* in [0, 1000) ms, the remote call of attempt k is issued only after that sleep
\* completes, and no sleep follows the final attempt.
C32_BackoffOrdering ==
  \A i \in Instances :
    LET inv == invocation[i]
        trace == inv.trace
        base == llm[i].baseDelayMs
    IN  /\ \A j \in 1..Len(trace) :
             /\ trace[j].event = "sleep" =>
                  /\ trace[j].attempt >= 1
                  /\ j > 1
                  /\ trace[j - 1].event \in {"response", "threw"}
                  /\ trace[j - 1].attempt = trace[j].attempt - 1
                  /\ trace[j].attempt <= llm[i].maxRetries
             /\ (trace[j].event = "call" /\ trace[j].attempt = 0) => j = 1
             /\ (trace[j].event = "call" /\ trace[j].attempt >= 1) =>
                  /\ j > 1
                  /\ trace[j - 1] = [event |-> "sleep", attempt |-> trace[j].attempt]
        /\ inv.pc = "sleep" =>
             /\ Last(trace) = [event |-> "sleep", attempt |-> inv.attempt]
             /\ RemoteCalls(inv) = IF llm[i].mockMode THEN 0 ELSE inv.attempt
             /\ inv.delayMs >= base * 2^inv.attempt
             /\ inv.delayMs < base * 2^inv.attempt + 1000
        /\ inv.pc # "sleep" => inv.delayMs = 0
        /\ inv.pc \in {"resolved", "rejected"} =>
             (trace # <<>> => Last(trace).event # "sleep")

\* a live call sleeps before its third attempt, with the largest jitter
C32_Witness ==
  /\ ~llm["A"].mockMode
  /\ invocation["A"].pc = "sleep"
  /\ invocation["A"].attempt = 2
  /\ invocation["A"].delayMs = 4999
  /\ RemoteCalls(invocation["A"]) = 2

\* C33: when runGraph resolves (the run is in DONE or ERROR), every generation
\* sub-task scheduled by GENERATE_OUTPUTS has settled: no sub-task is still in
\* flight, so the client's usage log, and the token summary runOrchestrator reads
\* right after the run, cannot change once the run has ended, also after a joint
\* failure. A sub-task in flight is a structured() call whose response is still
\* to be logged.
C33_NoTaskInFlightAfterRun ==
  pc = "done" => \A a \in Artifacts : tasks[a].status # "pending"

\* what a GENERATE_OUTPUTS attempt may write
GeneratedOf(c) == <<c.outputs, c.validation, c.tokenUsage>>

\* C34: a failing GENERATE_OUTPUTS attempt writes none of its results: when any
\* sub-task rejects, ctx.outputs, ctx.validation and ctx.tokenUsage are exactly
\* as they were before the handler ran (only validationAttempts was incremented),
\* even for sibling sub-tasks of the same attempt that succeeded.
C34_FailedAttemptWritesNothing ==
  [][IsDefault =>
       /\ (cur = "GENERATE_OUTPUTS" /\ pc = "invoke") =>
            ctx' = [ctx EXCEPT !.validationAttempts = @ + 1]
       /\ (cur = "GENERATE_OUTPUTS" /\ pc = "join" /\ cur' # "VALIDATE") =>
            /\ GeneratedOf(ctx') = GeneratedOf(ctx)
            /\ ctx'.validationAttempts = ctx.validationAttempts
       /\ (thrown # <<>> /\ thrown[1].state = "GENERATE_OUTPUTS") =>
            /\ GeneratedOf(ctx') = GeneratedOf(ctx)
            /\ ctx'.validationAttempts = ctx.validationAttempts]_vars

\* the retry failed after a sibling sub-task had succeeded with usage: the
\* context still has the validation of the first attempt and the outputs it
\* was computed from
C34_Witness ==
  /\ IsDefault
  /\ pc = "done"
  /\ thrown # <<>>
  /\ thrown[1].state = "GENERATE_OUTPUTS"
  /\ ctx.validationAttempts = 2
  /\ \E a, b \in Artifacts :
       /\ tasks[a].status = "rejected"
       /\ tasks[b].status = "fulfilled"
       /\ tasks[b].order = 0
       /\ tasks[b].usage.inputTokens = 2
       /\ tasks[b].data # ctx.outputs[b]
  /\ ctx.validation = validationLog[1]
  /\ validateOutputs(ctx.outputs, ctx.parsedJD) = ctx.validation

\* C35: at every point of a runGraph run, ctx.currentState equals the state of
\* the last stateHistory entry, and at every onStateChange(state, ctx) invocation
\* the state argument equals ctx.currentState; after runGraph resolves,
\* ctx.currentState is the terminal state the loop exited with.
C35_CurrentStateIsLastEntry ==
  /\ [](/\ ctx.currentState = Last(ctx.stateHistory).state
        /\ pc = "done" => /\ ctx.currentState = cur
                           /\ cur \in graph.terminalStates)
  /\ [][notified' # notified =>
          /\ Len(notified') = Len(notified) + 1
          /\ Last(notified') = ctx'.currentState
          /\ Last(notified') = cur]_vars

\* a run with a callback has resolved in ERROR after notifying several states
C35_Witness ==
  /\ pc = "done"
  /\ onStateChange = "given"
  /\ Len(notified) >= 3
  /\ Last(notified) = "ERROR"
  /\ ctx.currentState = "ERROR"
  /\ thrown # <<>>

\* the handler of the state is executing
Executing(state) == cur = state /\ pc \in {"invoke", "await", "join"}

\* the issues the validator pushes in its 'missing' branches
MissingIssues ==
  {<<"Cover letter is missing">>, <<"Resume bullets are missing">>,
   <<"Interview prep is missing">>}

\* C36 as stated: handler preconditions hold in the default graph: whenever
\* ANALYZE_FIT executes, parsedJD and parsedResume are non-null; whenever
\* GENERATE_OUTPUTS executes, fitAnalysis is also non-null; and whenever VALIDATE
\* executes, all three outputs are non-null, so the validator's 'missing'
\* branches are unreachable inside a pipeline run.
C36_MissingBranchesUnreachable ==
  IsDefault =>
    /\ Executing("ANALYZE_FIT") => ctx.parsedJD # Null /\ ctx.parsedResume # Null
    /\ Executing("GENERATE_OUTPUTS") =>
          ctx.parsedJD # Null /\ ctx.parsedResume # Null /\ ctx.fitAnalysis # Null
    /\ Executing("VALIDATE") => \A a \in Artifacts : ctx.outputs[a] # Null
    /\ \A k \in 1..Len(validationLog) :
         Range(validationLog[k].issues) \cap MissingIssues = {}

\* C36, amended: handler preconditions hold in the default graph: whenever
\* ANALYZE_FIT executes, parsedJD and parsedResume are non-null; whenever
\* GENERATE_OUTPUTS executes, fitAnalysis is also non-null; and whenever VALIDATE
\* executes, all three outputs are non-null. An output can be the empty string,
\* for which the validator takes its 'missing' branch.
C36_HandlerPreconditions ==
  IsDefault =>
    /\ Executing("ANALYZE_FIT") => ctx.parsedJD # Null /\ ctx.parsedResume # Null
    /\ Executing("GENERATE_OUTPUTS") =>
          ctx.parsedJD # Null /\ ctx.parsedResume # Null /\ ctx.fitAnalysis # Null
    /\ Executing("VALIDATE") => \A a \in Artifacts : ctx.outputs[a] # Null
    /\ \A k \in 1..Len(validationLog) :
         \A issue \in Range(validationLog[k].issues) \cap MissingIssues :
           issue = <<"Resume bullets are missing">> \/ issue = <<"Cover letter is missing">>

\* VALIDATE has run on outputs that are all non-null, the bullets being the
\* empty string, and has reported the bullets as missing
C36_Witness ==
  /\ IsDefault
  /\ Len(validationLog) = 1
  /\ cur = "GENERATE_OUTPUTS"
  /\ \A a \in Artifacts : ctx.outputs[a] # Null
  /\ ctx.outputs.tailoredBullets.empty
  /\ <<"Resume bullets are missing">> \in Range(ctx.validation.issues)

\* C37: whenever a run of the default graph ends in DONE, ctx.validation is
\* non-null, validationAttempts is 1 or 2, and validation.passed is false only
\* if validationAttempts = 2
C37_DoneAfterValidation ==
  (IsDefault /\ ctx.currentState = "DONE") =>
    /\ ctx.validation # Null
    /\ ctx.validationAttempts \in {1, MAX_VALIDATION_ATTEMPTS}
    /\ ~ctx.validation.passed => ctx.validationAttempts = MAX_VALIDATION_ATTEMPTS

\* a run that ended in DONE with a failed validation: DONE alone does not imply
\* validation.passed
C37_Witness ==
  /\ IsDefault /\ pc = "done" /\ ctx.currentState = "DONE"
  /\ ~ctx.validation.passed
  /\ ctx.validationAttempts = MAX_VALIDATION_ATTEMPTS
  /\ runOrchestrator.success

\* runGraph has settled: its promise resolved or rejected
RunEnded == pc \in {"done", "rejected"}

\* C38: in every run of the default graph on a fresh context, ctx.errors has at
\* most one entry, and at the end of the run ctx.errors is non-empty if and only
\* if ctx.currentState = ERROR
C38_ErrorsIffErrorState ==
  IsDefault =>
    /\ Len(ctx.errors) <= 1
    /\ RunEnded => (ctx.errors # <<>> <=> ctx.currentState = "ERROR")

\* a run that ended in ERROR with the one entry of the handler that threw
C38_Witness ==
  /\ IsDefault /\ pc = "done"
  /\ ctx.currentState = "ERROR"
  /\ Len(ctx.errors) = 1
  /\ Len(thrown) = 1
  /\ ctx.errors[1] = ErrorEntry(thrown[1].state, thrown[1].msg)

\* C40: only handler exceptions are converted into ERROR: an exception thrown
\* by the onStateChange callback is not caught by runGraph; the returned promise
\* rejects, nothing is appended to ctx.errors, the handler of the notified state
\* is not executed, and ctx.currentState stays at the state whose notification
\* threw
C40_CallbackExceptionEscapes ==
  /\ [][(rejection' = CallbackError /\ rejection # CallbackError) =>
          /\ pc' = "rejected"
          /\ ctx'.errors = ctx.errors
          /\ executed' = executed
          /\ thrown' = thrown
          /\ cur' = cur
          /\ notified' = Append(notified, cur)
          /\ ctx'.currentState = cur]_vars
  /\ [](rejection = CallbackError =>
          /\ pc = "rejected"
          /\ ctx.currentState = Last(notified)
          /\ Len(ctx.errors) = Len(thrown)
          /\ Len(executed) = Len(notified) - 1)
  /\ [][rejection = CallbackError =>
          UNCHANGED <<ctx, cur, pc, rejection, executed, notified, thrown>>]_vars

\* the callback threw on entering a non-terminal state of the default graph
\* after earlier handlers ran: the run is rejected in that state, without error
\* entry
C40_Witness ==
  /\ IsDefault
  /\ pc = "rejected" /\ rejection = CallbackError
  /\ ctx.currentState = "ANALYZE_FIT"
  /\ ctx.errors = <<>>
  /\ executed = <<"PARSE_JD", "PARSE_RESUME">>

\* C39: in a live run without parser cache hits, the context's token
\* accumulator never exceeds the client's own totals: at every point
\* ctx.tokenUsage.inputTokens <= llm.getUsageSummary().totalInputTokens and
\* ctx.tokenUsage.outputTokens <= totalOutputTokens; the context adds the usage
\* of the final successful attempt of each call, the client logs every response
C39_ContextUsageWithinClientTotals ==
  LET summary == getUsageSummary(llm[LiveClient])
  IN  /\ ctx.tokenUsage.inputTokens <= summary.totalInputTokens
      /\ ctx.tokenUsage.outputTokens <= summary.totalOutputTokens

\* a call that succeeded on a retry has been added to the context: the client
\* logged the rejected response too, and its totals are strictly larger
C39_Witness ==
  LET summary == getUsageSummary(llm[LiveClient])
  IN  /\ ~llm[LiveClient].mockMode
      /\ invocation[LiveClient] = NoCall
      /\ ctx.tokenUsage = UsageOf(LiveClient)
      /\ summary.totalCalls = 2
      /\ ctx.tokenUsage.inputTokens < summary.totalInputTokens
      /\ ctx.tokenUsage.outputTokens < summary.totalOutputTokens

====
